---- MODULE Spec2Model ----
(***************************************************************************)
(* A model of the zap-rs request-dispatch engine: the route tries, the     *)
(* middleware chains and the hook pipelines of its crates.                  *)
(*                                                                         *)
(* Strings are sequences of one-character strings, so that splitting a     *)
(* path on '/', testing a leading ':' and joining segments are computed    *)
(* as the code computes them.  Option<T> is a sequence of length 0 or 1.    *)
(***************************************************************************)
EXTENDS Integers, Sequences, FiniteSets, TLC

VARIABLES
    zn_routes,      \* zap-napi Router.routes: the root TrieNode
    zn_next_id,     \* zap-napi Router.next_id
    zn_reg,         \* history: the register calls that returned, in order
    zn_info         \* the last call when it was a get_handler_info: its
                    \* arguments and its result (None after a register)

VARIABLES
    hk_pre_routing,   \* Hooks.pre_routing: the hooks in registration order
    hk_post_handler,  \* Hooks.post_handler
    hk_error_hooks,   \* Hooks.error_hooks (error_handler in the napi crates)
    hk_run            \* the last call when it was an execute_*: the function,
                      \* its input and its outcome (None after an add_*)

VARIABLES
    mwc_middlewares,  \* core MiddlewareChain.middlewares: index -> middleware
    mwv_middlewares,  \* MiddlewareChain.middlewares of zap-napi/middleware.rs
                      \* and napi-rs/middleware.rs: a Vec
    mw_run            \* the last call when it ran a chain: the function and
                      \* its outcome (None after an add)

VARIABLES
    cr_routes,      \* core Router.routes: method -> root TrieNode
    cr_hooks,       \* core Router.hooks
    cr_middleware,  \* core Router.middleware: index -> middleware
    cr_reg,         \* history: the route calls that returned Ok, in order
    cr_out          \* the last call when it was a handle or a request to
                    \* the service of serve: the request and the outcome
                    \* (None after another call)

VARIABLES
    nr_store,       \* napi-rs Router.store: Store.routes, method -> root TrieNode
    nr_hooks,       \* napi-rs Router.hooks: Option<Hooks>
    nr_middleware,  \* napi-rs Router.middleware: Option<MiddlewareChain>
    nr_reg,         \* history: the get and post calls that returned Ok, in order
    nr_out          \* the last call when it was a handle: the request and
                    \* the outcome (None after another call)

VARIABLES
    js_routes,         \* JsRouter.routes: "METHOD path" -> callback
    js_middlewares,    \* JsRouter.middlewares: a Vec of callbacks
    js_hooks,          \* JsRouter.hooks: a Vec of callbacks
    js_error_handler,  \* JsRouter.error_handler: Option<callback>
    js_reg,            \* history: the get and post calls that returned, in order
    js_out             \* the last call when it was a handle: the request and
                       \* the outcome (None after another call)

VARIABLES
    zc_middlewares,    \* zap-napi MiddlewareChain.middlewares: id -> the shared
                       \* Option<JsObject> cell (None once taken)
    zc_next_id,        \* zap-napi MiddlewareChain.next_id
    zc_route_configs,  \* zap-napi Router.route_configs: handler id -> RouteConfig
    zc_out             \* the last call when it was a get_middleware_chain or a
                       \* get_guards: the function, the handler id, the
                       \* result (None after another call)

VARIABLES
    cl_handlers,  \* MiddlewareChain.handlers of napi-rs/src/middleware.rs: the
                  \* entries (handler, cleanup) in registration order
    cl_run        \* the last call when it was an execute: its outcome (None
                  \* after an add)

VARIABLES
    hx_handlers,  \* Hooks of napi-rs/src/hooks.rs: for each of pre_routing,
                  \* post_handler and error_handler, the Vec inside its Mutex
    hx_lock,      \* for each of the three tokio Mutexes, the dispatch holding
                  \* its guard (None when it is free)
    hx_pc         \* for each in-flight dispatch, where it is: idle, at the
                  \* lock().await of an execute_*, or awaiting the call_async
                  \* of the handler at an index

VARIABLES
    ar_middlewares,   \* a shared core MiddlewareChain.middlewares: index -> middleware
    ar_pc,            \* per thread: None, or Some(next_idx and middleware) inside add
    ar_started,       \* the number of add calls begun
    ar_done,          \* the names of the middlewares whose add has returned
    ar_run            \* the last execute on the shared chain

VARIABLES
    rr_routes,        \* a zap-napi Router.routes shared by several threads
    rr_next_id,       \* its next_id
    rr_pc,            \* per thread: None, or Some(id, method, path) inside register
    rr_done,          \* the register calls that have returned
    rr_info           \* the last get_handler_info on the shared router

VARIABLES
    cs_routes,        \* core Store.routes: normalized path -> RouteEntry
    cs_count,         \* the number of Store::register calls made
    cs_out            \* the last Store::lookup: path, iteration order, result

VARIABLES
    jl_pc,            \* per JsRouter call: its operation, the lock it is at, granted or not
    jl_readers,       \* per RwLock of the JsRouter: the calls holding a read guard
    jl_writer,        \* per RwLock: the call holding the write guard, if any
    jl_queue          \* per RwLock: the waiting acquisitions, first come first served

zapVars == <<zn_routes, zn_next_id, zn_reg, zn_info>>

coreVars == <<cr_routes, cr_hooks, cr_middleware, cr_reg, cr_out>>

mwVars == <<mwc_middlewares, mwv_middlewares, mw_run>>

hookVars == <<hk_pre_routing, hk_post_handler, hk_error_hooks, hk_run>>

napiVars == <<nr_store, nr_hooks, nr_middleware, nr_reg, nr_out>>

jsVars == <<js_routes, js_middlewares, js_hooks, js_error_handler, js_reg, js_out>>

zcVars == <<zc_middlewares, zc_next_id, zc_route_configs, zc_out>>

clVars == <<cl_handlers, cl_run>>

hxVars == <<hx_handlers, hx_lock, hx_pc>>

arVars == <<ar_middlewares, ar_pc, ar_started, ar_done, ar_run>>

rrVars == <<rr_routes, rr_next_id, rr_pc, rr_done, rr_info>>

csVars == <<cs_routes, cs_count, cs_out>>

jlVars == <<jl_pc, jl_readers, jl_writer, jl_queue>>

vars == <<zapVars, hookVars, mwVars, coreVars, napiVars,
         jsVars,
         zcVars,
         clVars,
         hxVars,
         arVars,
         rrVars,
         csVars,
         jlVars>>

(***************************************************************************)
(* Bounds.                                                                 *)
(***************************************************************************)
MaxRoutes == 3

MaxHooks == 3

MaxMiddlewares == 3

MaxCoreRoutes == 2

MaxNapiRoutes == 2

MaxJsRoutes == 2

MaxJsCallbacks == 1

MaxZapMiddlewares == 2

MaxEntries == 3

MaxSrcHooks == 1

(***************************************************************************)
(* Option and map helpers.                                                 *)
(***************************************************************************)
None == <<>>

Some(x) == <<x>>

EmptyMap == <<>>

MapInsert(m, k, v) == (k :> v) @@ m

(***************************************************************************)
(* str::split('/').filter(|s| !s.is_empty()).collect()                      *)
(***************************************************************************)
RECURSIVE SplitAcc(_, _, _)
SplitAcc(s, cur, acc) ==
    IF s = <<>>
    THEN IF cur = <<>> THEN acc ELSE Append(acc, cur)
    ELSE IF Head(s) = "/"
         THEN SplitAcc(Tail(s), <<>>, IF cur = <<>> THEN acc ELSE Append(acc, cur))
         ELSE SplitAcc(Tail(s), Append(cur, Head(s)), acc)

Split(path) == SplitAcc(path, <<>>, <<>>)

\* [&str]::join("/")
RECURSIVE Join(_)
Join(segments) ==
    IF segments = <<>> THEN <<>>
    ELSE IF Len(segments) = 1 THEN Head(segments)
    ELSE Head(segments) \o <<"/">> \o Join(Tail(segments))

\* segment.starts_with(':')
StartsWithColon(segment) == segment # <<>> /\ Head(segment) = ":"

\* segment == "*"
IsStar(segment) == segment = <<"*">>

(***************************************************************************)
(* zap-napi/src/router/trie.rs                                             *)
(***************************************************************************)
ZnNewNode ==
    [children |-> EmptyMap, param_child |-> None, wildcard_child |-> None,
     handler_id |-> None]

\* ZnInsertSegments that keeps the handler a node already has.
RECURSIVE ZnInsertSegmentsKeepFirst(_, _, _)
ZnInsertSegmentsKeepFirst(current, segments, handler_id) ==
    IF segments = <<>>
    THEN IF current.handler_id = None
         THEN [current EXCEPT !.handler_id = Some(handler_id)]
         ELSE current
    ELSE LET segment == Head(segments)
             rest == Tail(segments)
         IN  IF StartsWithColon(segment)
             THEN LET pc == IF current.param_child = None
                            THEN [name |-> Tail(segment), node |-> ZnNewNode]
                            ELSE current.param_child[1]
                  IN  [current EXCEPT !.param_child =
                          Some([name |-> pc.name,
                                node |-> ZnInsertSegmentsKeepFirst(pc.node, rest, handler_id)])]
             ELSE IF IsStar(segment)
             THEN LET wc == IF current.wildcard_child = None
                            THEN ZnNewNode
                            ELSE current.wildcard_child[1]
                  IN  [current EXCEPT !.wildcard_child =
                          Some(ZnInsertSegmentsKeepFirst(wc, rest, handler_id))]
             ELSE LET ch == IF segment \in DOMAIN current.children
                            THEN current.children[segment]
                            ELSE ZnNewNode
                  IN  [current EXCEPT !.children =
                          MapInsert(current.children, segment,
                                    ZnInsertSegmentsKeepFirst(ch, rest, handler_id))]

\* The loop of TrieNode::insert over the segments.  Every node of the trie
\* has one owner (the Router never clones a TrieNode), so
\* Arc::strong_count(node) is 1 and Arc::get_mut gives the node itself.
RECURSIVE ZnInsertSegments(_, _, _)
ZnInsertSegments(current, segments, handler_id) ==
    IF segments = <<>>
    THEN [current EXCEPT !.handler_id = Some(handler_id)]
    ELSE LET segment == Head(segments)
             rest == Tail(segments)
         IN  IF StartsWithColon(segment)
             THEN LET param_name == Tail(segment)
                      pc == IF current.param_child = None
                            THEN [name |-> param_name, node |-> ZnNewNode]
                            ELSE current.param_child[1]
                  IN  [current EXCEPT !.param_child =
                          Some([name |-> pc.name,
                                node |-> ZnInsertSegments(pc.node, rest, handler_id)])]
             ELSE IF IsStar(segment)
             THEN LET wc == IF current.wildcard_child = None
                            THEN ZnNewNode
                            ELSE current.wildcard_child[1]
                  IN  [current EXCEPT !.wildcard_child =
                          Some(ZnInsertSegments(wc, rest, handler_id))]
             ELSE LET ch == IF segment \in DOMAIN current.children
                            THEN current.children[segment]
                            ELSE ZnNewNode
                  IN  [current EXCEPT !.children =
                          MapInsert(current.children, segment,
                                    ZnInsertSegments(ch, rest, handler_id))]

ZnInsert(self, path, handler_id) ==
    IF path = <<>>
    THEN [self EXCEPT !.handler_id = Some(handler_id)]
    ELSE ZnInsertSegments(self, Split(path), handler_id)

\* ZnFindInternal without backtracking: an existing static child decides.
RECURSIVE ZnFindInternalNoBacktrack(_, _, _)
ZnFindInternalNoBacktrack(self, segments, params) ==
    IF segments = <<>>
    THEN IF self.handler_id = None THEN None
         ELSE Some([id |-> self.handler_id[1], params |-> params])
    ELSE LET segment == Head(segments)
             remaining == Tail(segments)
         IN  IF segment \in DOMAIN self.children
             THEN ZnFindInternalNoBacktrack(self.children[segment], remaining, params)
             ELSE IF self.param_child # None
             THEN ZnFindInternalNoBacktrack(self.param_child[1].node, remaining,
                      MapInsert(params, self.param_child[1].name, segment))
             ELSE IF self.wildcard_child # None
             THEN ZnFindInternalNoBacktrack(self.wildcard_child[1], <<>>,
                      MapInsert(params, <<"*">>, Join(segments)))
             ELSE None

\* ZnFindInternal that, at the end of the path, lets a node without a handler
\* answer with the handler of its wildcard child.
RECURSIVE ZnFindInternalPrefixWild(_, _, _)
ZnFindInternalPrefixWild(self, segments, params) ==
    IF segments = <<>>
    THEN IF self.handler_id # None
         THEN Some([id |-> self.handler_id[1], params |-> params])
         ELSE IF self.wildcard_child # None /\ self.wildcard_child[1].handler_id # None
         THEN Some([id |-> self.wildcard_child[1].handler_id[1],
                    params |-> MapInsert(params, <<"*">>, <<>>)])
         ELSE None
    ELSE LET segment == Head(segments)
             remaining == Tail(segments)
             exact == IF segment \in DOMAIN self.children
                      THEN ZnFindInternalPrefixWild(self.children[segment], remaining, params)
                      ELSE None
             param == IF self.param_child # None
                      THEN ZnFindInternalPrefixWild(self.param_child[1].node, remaining,
                               MapInsert(params, self.param_child[1].name, segment))
                      ELSE None
             wild  == IF self.wildcard_child # None
                      THEN ZnFindInternalPrefixWild(self.wildcard_child[1], <<>>,
                               MapInsert(params, <<"*">>, Join(segments)))
                      ELSE None
         IN  IF exact # None THEN exact
             ELSE IF param # None THEN param
             ELSE IF wild # None THEN wild
             ELSE None

\* ZnFindInternal whose wildcard child consumes one segment only.
RECURSIVE ZnFindInternalWildOne(_, _, _)
ZnFindInternalWildOne(self, segments, params) ==
    IF segments = <<>>
    THEN IF self.handler_id = None THEN None
         ELSE Some([id |-> self.handler_id[1], params |-> params])
    ELSE LET segment == Head(segments)
             remaining == Tail(segments)
             exact == IF segment \in DOMAIN self.children
                      THEN ZnFindInternalWildOne(self.children[segment], remaining, params)
                      ELSE None
             param == IF self.param_child # None
                      THEN ZnFindInternalWildOne(self.param_child[1].node, remaining,
                               MapInsert(params, self.param_child[1].name, segment))
                      ELSE None
             wild  == IF self.wildcard_child # None
                      THEN ZnFindInternalWildOne(self.wildcard_child[1], remaining,
                               MapInsert(params, <<"*">>, segment))
                      ELSE None
         IN  IF exact # None THEN exact
             ELSE IF param # None THEN param
             ELSE IF wild # None THEN wild
             ELSE None

RECURSIVE ZnFindInternal(_, _, _)
ZnFindInternal(self, segments, params) ==
    IF segments = <<>>
    THEN IF self.handler_id = None THEN None
         ELSE Some([id |-> self.handler_id[1], params |-> params])
    ELSE LET segment == Head(segments)
             remaining == Tail(segments)
             exact == IF segment \in DOMAIN self.children
                      THEN ZnFindInternal(self.children[segment], remaining, params)
                      ELSE None
             param == IF self.param_child # None
                      THEN ZnFindInternal(self.param_child[1].node, remaining,
                               MapInsert(params, self.param_child[1].name, segment))
                      ELSE None
             wild  == IF self.wildcard_child # None
                      THEN ZnFindInternal(self.wildcard_child[1], <<>>,
                               MapInsert(params, <<"*">>, Join(segments)))
                      ELSE None
         IN  IF exact # None THEN exact
             ELSE IF param # None THEN param
             ELSE IF wild # None THEN wild
             ELSE None

ZnFind(self, path) == ZnFindInternal(self, Split(path), EmptyMap)

(***************************************************************************)
(* Requests, responses, errors and results.  A callback (a hook, a         *)
(* middleware, a handler) is named by a tag; a request or response carries *)
(* the tags of the callbacks that transformed it.                          *)
(***************************************************************************)
Tag(who, n) == [who |-> who, n |-> n]

Request(method, path) == [method |-> method, path |-> path, marks |-> <<>>]

Response(status, from, about) ==
    [status |-> status, from |-> from, about |-> about, marks |-> <<>>]

Error(kind, from, msg) == [kind |-> kind, from |-> from, msg |-> msg]

Mark(value, tag) == [value EXCEPT !.marks = Append(@, tag)]

Ok(v) == [ok |-> TRUE, val |-> <<v>>, err |-> <<>>]

Err(e) == [ok |-> FALSE, val |-> <<>>, err |-> <<e>>]

(***************************************************************************)
(* Hooks.  A registered hook is [kind, n]: n is its position in its list,  *)
(* kind says whether the callback succeeds.  A succeeding request or       *)
(* response hook returns its input with its own tag added; a failing one   *)
(* returns an error of its own; a succeeding error hook returns a response *)
(* made for the error it was given.                                        *)
(***************************************************************************)
HookKinds == {"ok", "fail"}

CallHook(phase, hook, value) ==
    IF hook.kind = "ok"
    THEN Ok(Mark(value, Tag(phase, hook.n)))
    ELSE Err(Error("Internal", Tag(phase, hook.n), <<>>))

CallErrorHook(hook, err) ==
    IF hook.kind = "ok"
    THEN Ok(Response(500, Tag("error", hook.n), <<err>>))
    ELSE Err(Error("Internal", Tag("error", hook.n), <<>>))

\* An execution's outcome: its result and the calls it made, in order, each
\* with the hook called and the argument it was given.
Outcome(result, calls) == [result |-> result, calls |-> calls]

Call(hook, arg) == [n |-> hook.n, arg |-> arg]

\* for hook in &hooks { current = hook(current).await?; } Ok(current)
\* (src/src/hooks.rs execute_pre_routing, execute_post_routing,
\* execute_pre_handler, execute_post_handler; napi-rs/hooks.rs
\* execute_pre_routing, execute_post_handler)
RECURSIVE ForEachHook(_, _, _, _)
ForEachHook(phase, hooks, current, calls) ==
    IF hooks = <<>>
    THEN Outcome(Ok(current), calls)
    ELSE LET hook == Head(hooks)
             r == CallHook(phase, hook, current)
             calls2 == Append(calls, Call(hook, current))
         IN  IF r.ok
             THEN ForEachHook(phase, Tail(hooks), r.val[1], calls2)
             ELSE Outcome(r, calls2)

\* ForEachHook that goes on after a failing hook, keeping the value it had.
RECURSIVE ForEachHookIgnoringFailure(_, _, _, _)
ForEachHookIgnoringFailure(phase, hooks, current, calls) ==
    IF hooks = <<>>
    THEN Outcome(Ok(current), calls)
    ELSE LET hook == Head(hooks)
             r == CallHook(phase, hook, current)
             calls2 == Append(calls, Call(hook, current))
         IN  ForEachHookIgnoringFailure(phase, Tail(hooks),
                 IF r.ok THEN r.val[1] ELSE current, calls2)

CoreExecutePreRoutingIgnoringFailure(hooks, req) ==
    ForEachHookIgnoringFailure("pre_routing", hooks, req, <<>>)

\* src/src/hooks.rs
Core_execute_pre_routing(hooks, req) == ForEachHook("pre_routing", hooks, req, <<>>)

Core_execute_post_routing(hooks, req) == ForEachHook("post_routing", hooks, req, <<>>)

Core_execute_pre_handler(hooks, req) == ForEachHook("pre_handler", hooks, req, <<>>)

Core_execute_post_handler(hooks, res) == ForEachHook("post_handler", hooks, res, <<>>)

\* for hook in &self.error_hooks { match hook(err.clone()).await {
\*     Ok(response) => return Ok(response), Err(_) => continue } } Err(err)
RECURSIVE CoreErrorLoop(_, _, _)
CoreErrorLoop(hooks, err, calls) ==
    IF hooks = <<>>
    THEN Outcome(Err(err), calls)
    ELSE LET hook == Head(hooks)
             r == CallErrorHook(hook, err)
             calls2 == Append(calls, Call(hook, err))
         IN  IF r.ok
             THEN Outcome(r, calls2)
             ELSE CoreErrorLoop(Tail(hooks), err, calls2)

\* CoreErrorLoop that does not stop at a succeeding hook: the last success,
\* if any, is the result.
RECURSIVE CoreErrorLoopNoReturn(_, _, _, _)
CoreErrorLoopNoReturn(hooks, err, calls, last) ==
    IF hooks = <<>>
    THEN Outcome(last, calls)
    ELSE LET hook == Head(hooks)
             r == CallErrorHook(hook, err)
         IN  CoreErrorLoopNoReturn(Tail(hooks), err, Append(calls, Call(hook, err)),
                                   IF r.ok THEN r ELSE last)

CoreExecuteErrorHooksNoReturn(hooks, err) ==
    CoreErrorLoopNoReturn(hooks, err, <<>>, Err(err))

Core_execute_error_hooks(hooks, err) == CoreErrorLoop(hooks, err, <<>>)

\* napi-rs/hooks.rs
Napi_execute_pre_routing(hooks, req) == ForEachHook("pre_routing", hooks, req, <<>>)

Napi_execute_post_handler(hooks, resp) == ForEachHook("post_handler", hooks, resp, <<>>)

\* let mut current_err = err; for hook in &self.error_hooks {
\*     match hook(current_err.clone()).await { Ok(response) => return Ok(response),
\*     Err(e) => current_err = e } } Err(current_err)
RECURSIVE NapiErrorLoop(_, _, _)
NapiErrorLoop(hooks, current_err, calls) ==
    IF hooks = <<>>
    THEN Outcome(Err(current_err), calls)
    ELSE LET hook == Head(hooks)
             r == CallErrorHook(hook, current_err)
             calls2 == Append(calls, Call(hook, current_err))
         IN  IF r.ok
             THEN Outcome(r, calls2)
             ELSE NapiErrorLoop(Tail(hooks), r.err[1], calls2)

Napi_execute_error_hooks(hooks, err) == NapiErrorLoop(hooks, err, <<>>)

\* napi::Error::from_reason(error.to_string()): the error's kind and message
\* become the reason text of a generic failure.
FromReason(error) == Error("GenericFailure", error.from, <<error.kind>> \o error.msg)

\* napi-rs/src/hooks.rs: for handler in handlers.iter() {
\*     let result = handler.call_async(Ok(error.clone())).await?; return Ok(result); }
\* Err(napi::Error::from_reason(error.to_string()))
NapiSrc_execute_error_handler(handlers, error) ==
    IF handlers = <<>>
    THEN Outcome(Err(FromReason(error)), <<>>)
    ELSE Outcome(CallErrorHook(Head(handlers), error), <<Call(Head(handlers), error)>>)

\* zap-napi/src/hooks.rs: for handler in handlers.iter() {
\*     return handler(error.clone()); }
\* Err(napi::Error::from_reason(error.to_string()))
ZapSrc_execute_error_handler(handlers, error) ==
    IF handlers = <<>>
    THEN Outcome(Err(FromReason(error)), <<>>)
    ELSE Outcome(CallErrorHook(Head(handlers), error), <<Call(Head(handlers), error)>>)

(***************************************************************************)
(* Middleware.  A registered middleware is [kind, n]: n is its position in *)
(* registration order; a "pass" middleware marks the request, invokes its  *)
(* continuation once and marks the response it gets back; a "short" one    *)
(* answers without invoking the continuation; a "fail" one returns an      *)
(* error without invoking it.  A handler is [kind, n].  A composed handler *)
(* is the sequence of the middlewares wrapped around the final handler,    *)
(* the outermost first.  The trace lists what ran, in order.               *)
(***************************************************************************)
MiddlewareKinds == {"pass", "short", "fail"}

HandlerKinds == {"ok", "fail"}

Event(ev, n) == [ev |-> ev, n |-> n]

TheHandler(kind) == [kind |-> kind, n |-> 0]

\* handler(req): the final handler's call.
CallHandler(handler, req, trace) ==
    [result |-> IF handler.kind = "ok"
                THEN Ok([Response(200, Tag("handler", handler.n), <<>>)
                            EXCEPT !.marks = req.marks])
                ELSE Err(Error("Internal", Tag("handler", handler.n), <<>>)),
     trace |-> Append(trace, Event("handler", handler.n))]

\* Wrapping the continuation next in the middleware: a closure that calls
\* middleware(req, next).
Wrap(middleware, next) == <<middleware>> \o next

\* Invoking a composed handler whose answering middleware still runs what it
\* wraps before it returns its own response.
RECURSIVE InvokeThrough(_, _, _, _)
InvokeThrough(wrappers, handler, req, trace) ==
    IF wrappers = <<>>
    THEN CallHandler(handler, req, trace)
    ELSE LET middleware == Head(wrappers)
             me == Tag("middleware", middleware.n)
             entered == Append(trace, Event("enter", middleware.n))
             inner == InvokeThrough(Tail(wrappers), handler, Mark(req, me), entered)
         IN  CASE middleware.kind = "pass" ->
                      [result |-> IF inner.result.ok
                                  THEN Ok(Mark(inner.result.val[1], me))
                                  ELSE inner.result,
                       trace |-> Append(inner.trace, Event("exit", middleware.n))]
               [] middleware.kind = "short" ->
                      [result |-> Ok(Response(200, me, <<>>)),
                       trace |-> Append(inner.trace, Event("exit", middleware.n))]
               [] OTHER ->
                      [result |-> Err(Error("MiddlewareError", me, <<>>)),
                       trace |-> Append(entered, Event("exit", middleware.n))]

\* Invoking a composed handler.
RECURSIVE Invoke(_, _, _, _)
Invoke(wrappers, handler, req, trace) ==
    IF wrappers = <<>>
    THEN CallHandler(handler, req, trace)
    ELSE LET middleware == Head(wrappers)
             me == Tag("middleware", middleware.n)
             entered == Append(trace, Event("enter", middleware.n))
         IN  IF middleware.kind = "pass"
             THEN LET inner == Invoke(Tail(wrappers), handler, Mark(req, me), entered)
                  IN  [result |-> IF inner.result.ok
                                  THEN Ok(Mark(inner.result.val[1], me))
                                  ELSE inner.result,
                       trace |-> Append(inner.trace, Event("exit", middleware.n))]
             ELSE [result |-> IF middleware.kind = "short"
                              THEN Ok(Response(200, me, <<>>))
                              ELSE Err(Error("MiddlewareError", me, <<>>)),
                   trace |-> Append(entered, Event("exit", middleware.n))]

\* src/src/middleware.rs execute: for idx in (0..self.middlewares.len()).rev()
\* { if let Some(middleware) = self.middlewares.get(&idx) { chain = wrap } }
\* count is the number of indices still to visit, idx = count - 1 the next.
RECURSIVE CoreBuildChain(_, _, _)
CoreBuildChain(middlewares, count, chain) ==
    IF count = 0
    THEN chain
    ELSE LET idx == count - 1
         IN  CoreBuildChain(middlewares, idx,
                 IF idx \in DOMAIN middlewares
                 THEN Wrap(middlewares[idx], chain)
                 ELSE chain)

\* CoreBuildChain visiting the indices front to back.
RECURSIVE CoreBuildChainForward(_, _, _)
CoreBuildChainForward(middlewares, count, chain) ==
    IF count = 0
    THEN chain
    ELSE LET idx == Cardinality(DOMAIN middlewares) - count
         IN  CoreBuildChainForward(middlewares, count - 1,
                 IF idx \in DOMAIN middlewares
                 THEN Wrap(middlewares[idx], chain)
                 ELSE chain)

CoreExecuteForward(middlewares, req, handler) ==
    Invoke(CoreBuildChainForward(middlewares, Cardinality(DOMAIN middlewares), <<>>),
           handler, req, <<>>)

\* DashMap::len() of the chain is the number of its entries.
Core_execute(middlewares, req, handler) ==
    Invoke(CoreBuildChain(middlewares, Cardinality(DOMAIN middlewares), <<>>),
           handler, req, <<>>)

\* zap-napi/middleware.rs compose: for middleware in middlewares.iter().rev()
\* { handler = wrap(middleware, handler) }.  todo is the part of the Vec not
\* yet visited; the iteration takes its last element.
RECURSIVE Zap_compose(_, _)
Zap_compose(todo, handler) ==
    IF todo = <<>>
    THEN handler
    ELSE Zap_compose(SubSeq(todo, 1, Len(todo) - 1), Wrap(todo[Len(todo)], handler))

\* middlewares.iter().rev().collect::<Vec<_>>()
RECURSIVE Reversed(_)
Reversed(v) == IF v = <<>> THEN <<>> ELSE Append(Reversed(Tail(v)), Head(v))

\* napi-rs/middleware.rs compose, the loop of the returned closure:
\* while let Some(middleware) = chain.pop() { next_fn = wrap(middleware, next_fn) }
\* Vec::pop takes the last element.
RECURSIVE NapiPopLoop(_, _)
NapiPopLoop(chain, next_fn) ==
    IF chain = <<>>
    THEN next_fn
    ELSE NapiPopLoop(SubSeq(chain, 1, Len(chain) - 1), Wrap(chain[Len(chain)], next_fn))

Napi_compose(middlewares) == NapiPopLoop(Reversed(middlewares), <<>>)

(***************************************************************************)
(* src/src/trie.rs.  The maps of a node are DashMaps behind a shared       *)
(* reference and the children are Arcs: a write to a node reached through  *)
(* a cloned Arc is a write to the one shared node.                         *)
(***************************************************************************)
CoreNewNode ==
    [children |-> EmptyMap, param_child |-> EmptyMap, wildcard_child |-> None,
     handler |-> None]

MapRemove(m, k) == [x \in DOMAIN m \ {k} |-> m[x]]

\* The loop of TrieNode::insert and the final current.handler.insert: the
\* node current as the walk leaves it, its descendants included.
RECURSIVE CoreInsertSegments(_, _, _)
CoreInsertSegments(current, segments, handler) ==
    IF segments = <<>>
    THEN [current EXCEPT !.handler = Some(handler)]
    ELSE LET segment == Head(segments)
             rest == Tail(segments)
         IN  IF StartsWithColon(segment)
             THEN LET param_name == Tail(segment)
                      next_node == IF param_name \in DOMAIN current.param_child
                                   THEN current.param_child[param_name]
                                   ELSE CoreNewNode
                  IN  [current EXCEPT !.param_child =
                          MapInsert(current.param_child, param_name,
                                    CoreInsertSegments(next_node, rest, handler))]
             ELSE IF IsStar(segment)
             THEN LET next_node == IF current.wildcard_child = None
                                   THEN CoreNewNode
                                   ELSE current.wildcard_child[1]
                  IN  [current EXCEPT !.wildcard_child =
                          Some(CoreInsertSegments(next_node, rest, handler))]
             ELSE LET next_node == IF segment \in DOMAIN current.children
                                   THEN current.children[segment]
                                   ELSE CoreNewNode
                  IN  [current EXCEPT !.children =
                          MapInsert(current.children, segment,
                                    CoreInsertSegments(next_node, rest, handler))]

\* TrieNode::insert.  The walk starts at a new node that holds clones of
\* self's entries (lines 21-36), so an entry or a handler the walk adds to
\* that first node is added to the copy and dropped with it, while what it
\* writes below an entry that self holds too is written to the shared node.
\* self afterwards: the entries it had, each with its node as the walk left it.
CoreInsert(self, path, handler) ==
    LET copy == self
        walked == CoreInsertSegments(copy, Split(path), handler)
    IN  [children |-> [k \in DOMAIN self.children |-> walked.children[k]],
         param_child |-> [k \in DOMAIN self.param_child |-> walked.param_child[k]],
         wildcard_child |-> IF self.wildcard_child = None THEN None
                            ELSE walked.wildcard_child,
         handler |-> self.handler]

\* TrieNode::find_internal.  params is written in place, and the param
\* children are visited in the DashMap's iteration order, which is not
\* fixed: the value is the set of the possible (handler, params) outcomes.
RECURSIVE CoreFindInternal(_, _, _, _)
RECURSIVE CoreParamLoop(_, _, _, _, _)
RECURSIVE CoreWildcard(_, _, _, _)
CoreFindInternal(self, segments, index, params) ==
    IF index = Len(segments)
    THEN {[handler |-> self.handler, params |-> params]}
    ELSE LET segment == segments[index + 1]
             exact == IF segment \in DOMAIN self.children
                      THEN CoreFindInternal(self.children[segment], segments,
                                            index + 1, params)
                      ELSE {[handler |-> None, params |-> params]}
         IN  UNION { IF e.handler # None
                     THEN {e}
                     ELSE CoreParamLoop(self, segments, index, e.params,
                                        DOMAIN self.param_child) : e \in exact }

CoreParamLoop(self, segments, index, params, todo) ==
    IF todo = {}
    THEN CoreWildcard(self, segments, index, params)
    ELSE UNION { LET tried == CoreFindInternal(self.param_child[param_name], segments,
                                  index + 1,
                                  MapInsert(params, param_name, segments[index + 1]))
                 IN  UNION { IF t.handler # None
                             THEN {t}
                             ELSE CoreParamLoop(self, segments, index,
                                      MapRemove(t.params, param_name),
                                      todo \ {param_name}) : t \in tried }
               : param_name \in todo }

CoreWildcard(self, segments, index, params) ==
    IF self.wildcard_child # None
    THEN CoreFindInternal(self.wildcard_child[1], segments, index + 1, params)
    ELSE {[handler |-> None, params |-> params]}

\* TrieNode::find
CoreFind(self, path) == CoreFindInternal(self, Split(path), 0, EmptyMap)

(***************************************************************************)
(* zap-napi/src/router/mod.rs                                              *)
(***************************************************************************)
\* format!("{}/{}", method, path)
ZnFullPath(method, path) == method \o <<"/">> \o path

GET == <<"G", "E", "T">>

POST == <<"P", "O", "S", "T">>

Methods == {GET, POST}

\* The patterns the register calls draw from: the root, a static route, a
\* param route, a static route below the static one, a two-param route, two
\* routes that name the same param position differently, a wildcard route
\* and a route with a wildcard that is not its last segment.
Patterns ==
    { <<"/">>,
      <<"/", "u", "/", "m">>,
      <<"/", "u", "/", ":", "i">>,
      <<"/", "u", "/", "m", "/", "x">>,
      <<"/", "u", "/", ":", "i", "/", "c", "/", ":", "k">>,
      <<"/", "u", "/", ":", "j", "/", "c">>,
      <<"/", "u", "/", ":", "j">>,
      <<"/", "u", "/", "*">>,
      <<"/", "u", "/", "*", "/", "x">> }

\* The request paths the lookups draw from.
Paths ==
    { <<"/">>,
      <<"/", "u">>,
      <<"/", "u", "/", "m">>,
      <<"/", "u", "/", "7">>,
      <<"/", "u", "/", "m", "/", "c">>,
      <<"/", "u", "/", "7", "/", "c", "/", "9">>,
      <<"/", "u", "/", "m", "/", "x">>,
      <<"/", "v", "/", "m">> }

\* The (method, pattern) pairs registered and the (method, path) pairs
\* looked up: every pattern and path under GET, one of each under POST.
RouteInputs ==
    ({GET} \X Patterns) \cup {<<POST, <<"/", "u", "/", "m">> >>}

RequestInputs ==
    ({GET} \X Paths) \cup {<<POST, <<"/", "u", "/", "m">> >>}

\* What the zap-napi Router's operations leave alone: the other parts.
ZnFrame == UNCHANGED <<hookVars, mwVars, coreVars, napiVars, jsVars, zcVars, clVars, hxVars, arVars, rrVars, csVars, jlVars>>

ZnInit ==
    /\ zn_routes = ZnNewNode
    /\ zn_next_id = 1
    /\ zn_reg = <<>>
    /\ zn_info = None

\* Router::register(method, path, None): every path ends at Ok(id).
ZnRegister(method, path) ==
    /\ zn_next_id <= MaxRoutes
    /\ LET id == zn_next_id
       IN  /\ zn_next_id' = zn_next_id + 1
           /\ zn_routes' = ZnInsert(zn_routes, ZnFullPath(method, path), id)
           /\ zn_reg' = Append(zn_reg, [method |-> method, path |-> path, id |-> id,
                                        result |-> Ok(id)])
    /\ zn_info' = None
    /\ ZnFrame

\* A get_handler_info that takes what it finds out of the table.
ZnGetHandlerInfoTaking(method, path) ==
    LET result == ZnFind(zn_routes, ZnFullPath(method, path))
    IN  /\ zn_info' = Some([method |-> method, path |-> path, result |-> result])
        /\ zn_routes' = IF result = None THEN zn_routes ELSE ZnNewNode
        /\ UNCHANGED <<zn_next_id, zn_reg>>
        /\ ZnFrame

\* Router::get_handler_info(method, path)
ZnGetHandlerInfo(method, path) ==
    /\ zn_info' = Some([method |-> method, path |-> path,
                        result |-> ZnFind(zn_routes, ZnFullPath(method, path))])
    /\ UNCHANGED <<zn_routes, zn_next_id, zn_reg>>
    /\ ZnFrame

ZnNext ==
    \/ \E r \in RouteInputs : ZnRegister(r[1], r[2])
    \/ \E r \in RequestInputs : ZnGetHandlerInfo(r[1], r[2])


(***************************************************************************)
(* The zap-napi Router shared by several threads: register draws its id    *)
(* from the atomic counter before it takes the lock of the routes.         *)
(***************************************************************************)
MaxRegistrars == 2

Registrars == 1..MaxRegistrars

\* The routes the concurrent register calls draw from, and the requests.
RaceRouteInputs ==
    {GET} \X {<<"/", "u", "/", "m">>, <<"/", "u", "/", ":", "i">>}

RaceRequestInputs ==
    {GET} \X {<<"/", "u", "/", "m">>, <<"/", "u", "/", "7">>, <<"/", "v">>}

RrFrame == UNCHANGED <<zapVars, hookVars, mwVars, coreVars, napiVars, jsVars, zcVars, clVars, hxVars, arVars, csVars, jlVars>>

RrInit ==
    /\ rr_routes = ZnNewNode
    /\ rr_next_id = 1
    /\ rr_pc = [t \in Registrars |-> None]
    /\ rr_done = <<>>
    /\ rr_info = None

\* register, first statement:
\* let id = self.next_id.fetch_add(1, Ordering::SeqCst);
RrFetchAdd(t, method, path) ==
    /\ rr_pc[t] = None
    /\ rr_next_id <= MaxRoutes
    /\ rr_pc' = [rr_pc EXCEPT ![t] =
                    Some([id |-> rr_next_id, method |-> method, path |-> path])]
    /\ rr_next_id' = rr_next_id + 1
    /\ UNCHANGED <<rr_routes, rr_done, rr_info>>
    /\ RrFrame

\* register, the rest: let mut routes = self.routes.lock().unwrap();
\* routes.insert(&full_path, id); Ok(id)   (config is None)
RrInsert(t) ==
    /\ rr_pc[t] # None
    /\ LET c == rr_pc[t][1]
       IN  /\ rr_routes' = ZnInsert(rr_routes, ZnFullPath(c.method, c.path), c.id)
           /\ rr_done' = Append(rr_done, c)
    /\ rr_pc' = [rr_pc EXCEPT ![t] = None]
    /\ rr_info' = None
    /\ UNCHANGED rr_next_id
    /\ RrFrame

\* get_handler_info on the shared router (under the lock of the routes)
RrGetHandlerInfo(method, path) ==
    /\ rr_info' = Some([method |-> method, path |-> path,
                        result |-> ZnFind(rr_routes, ZnFullPath(method, path))])
    /\ UNCHANGED <<rr_routes, rr_next_id, rr_pc, rr_done>>
    /\ RrFrame

RrNext ==
    \/ \E t \in Registrars, r \in RaceRouteInputs : RrFetchAdd(t, r[1], r[2])
    \/ \E t \in Registrars : RrInsert(t)
    \/ \E r \in RaceRequestInputs : RrGetHandlerInfo(r[1], r[2])

(***************************************************************************)
(* The hook pipelines: one set of registered hooks, run by each crate's    *)
(* execute functions.                                                      *)
(***************************************************************************)
\* The request, response and error the executions are given.
Req0 == Request(GET, <<"/">>)

Resp0 == Response(200, Tag("handler", 0), <<>>)

Err0 == Error("Internal", Tag("handler", 0), <<>>)

\* What the hook operations leave alone: the other parts.
HkFrame == UNCHANGED <<zapVars, mwVars, coreVars, napiVars, jsVars, zcVars, clVars, hxVars, arVars, rrVars, csVars, jlVars>>

HkInit ==
    /\ hk_pre_routing = <<>>
    /\ hk_post_handler = <<>>
    /\ hk_error_hooks = <<>>
    /\ hk_run = None

\* Hooks::add_pre_routing: self.pre_routing.push(hook)
HkAddPreRouting(kind) ==
    /\ Len(hk_pre_routing) < MaxHooks
    /\ hk_pre_routing' = Append(hk_pre_routing, [kind |-> kind, n |-> Len(hk_pre_routing) + 1])
    /\ hk_run' = None
    /\ UNCHANGED <<hk_post_handler, hk_error_hooks>>
    /\ HkFrame

\* Hooks::add_post_handler: self.post_handler.push(hook)
HkAddPostHandler(kind) ==
    /\ Len(hk_post_handler) < MaxHooks
    /\ hk_post_handler' = Append(hk_post_handler, [kind |-> kind, n |-> Len(hk_post_handler) + 1])
    /\ hk_run' = None
    /\ UNCHANGED <<hk_pre_routing, hk_error_hooks>>
    /\ HkFrame

\* Hooks::add_error_hook: self.error_hooks.push(hook)
HkAddErrorHook(kind) ==
    /\ Len(hk_error_hooks) < MaxHooks
    /\ hk_error_hooks' = Append(hk_error_hooks, [kind |-> kind, n |-> Len(hk_error_hooks) + 1])
    /\ hk_run' = None
    /\ UNCHANGED <<hk_pre_routing, hk_post_handler>>
    /\ HkFrame

HkRan(fn, out) ==
    /\ hk_run' = Some([fn |-> fn, out |-> out])
    /\ UNCHANGED <<hk_pre_routing, hk_post_handler, hk_error_hooks>>
    /\ HkFrame

HkCoreExecutePreRouting ==
    HkRan("core.execute_pre_routing", Core_execute_pre_routing(hk_pre_routing, Req0))

HkCoreExecutePostHandler ==
    HkRan("core.execute_post_handler", Core_execute_post_handler(hk_post_handler, Resp0))

HkCoreExecuteErrorHooks ==
    HkRan("core.execute_error_hooks", Core_execute_error_hooks(hk_error_hooks, Err0))

HkNapiExecutePreRouting ==
    HkRan("napi.execute_pre_routing", Napi_execute_pre_routing(hk_pre_routing, Req0))

HkNapiExecutePostHandler ==
    HkRan("napi.execute_post_handler", Napi_execute_post_handler(hk_post_handler, Resp0))

HkNapiExecuteErrorHooks ==
    HkRan("napi.execute_error_hooks", Napi_execute_error_hooks(hk_error_hooks, Err0))

HkNapiSrcExecuteErrorHandler ==
    HkRan("napi_src.execute_error_handler",
          NapiSrc_execute_error_handler(hk_error_hooks, Err0))

HkZapSrcExecuteErrorHandler ==
    HkRan("zap_src.execute_error_handler",
          ZapSrc_execute_error_handler(hk_error_hooks, Err0))

HkNext ==
    \/ \E kind \in HookKinds : HkAddPreRouting(kind)
    \/ \E kind \in HookKinds : HkAddPostHandler(kind)
    \/ \E kind \in HookKinds : HkAddErrorHook(kind)
    \/ HkCoreExecutePreRouting
    \/ HkCoreExecutePostHandler
    \/ HkCoreExecuteErrorHooks
    \/ HkNapiExecutePreRouting
    \/ HkNapiExecutePostHandler
    \/ HkNapiExecuteErrorHooks
    \/ HkNapiSrcExecuteErrorHandler
    \/ HkZapSrcExecuteErrorHandler

(***************************************************************************)
(* The middleware chains.                                                  *)
(***************************************************************************)
MwFrame == UNCHANGED <<zapVars, hookVars, coreVars, napiVars, jsVars, zcVars, clVars, hxVars, arVars, rrVars, csVars, jlVars>>

MwInit ==
    /\ mwc_middlewares = EmptyMap
    /\ mwv_middlewares = <<>>
    /\ mw_run = None

\* src/src/middleware.rs add: let next_idx = self.middlewares.len();
\* self.middlewares.insert(next_idx, Arc::new(middleware))
\* (one caller at a time; the middleware added n-th is named n)
MwCoreAdd(kind) ==
    /\ Cardinality(DOMAIN mwc_middlewares) < MaxMiddlewares
    /\ LET next_idx == Cardinality(DOMAIN mwc_middlewares)
       IN  mwc_middlewares' =
               MapInsert(mwc_middlewares, next_idx, [kind |-> kind, n |-> next_idx + 1])
    /\ mw_run' = None
    /\ UNCHANGED mwv_middlewares
    /\ MwFrame

\* zap-napi/middleware.rs and napi-rs/middleware.rs add:
\* self.middlewares.push(middleware)
MwVecAdd(kind) ==
    /\ Len(mwv_middlewares) < MaxMiddlewares
    /\ mwv_middlewares' =
           Append(mwv_middlewares, [kind |-> kind, n |-> Len(mwv_middlewares) + 1])
    /\ mw_run' = None
    /\ UNCHANGED mwc_middlewares
    /\ MwFrame

MwRan(fn, handler, out) ==
    /\ mw_run' = Some([fn |-> fn, handler |-> handler, out |-> out])
    /\ UNCHANGED <<mwc_middlewares, mwv_middlewares>>
    /\ MwFrame

\* MiddlewareChain::execute(req, handler) of the core crate
MwCoreExecute(kind) ==
    MwRan("core.execute", TheHandler(kind),
          Core_execute(mwc_middlewares, Req0, TheHandler(kind)))

\* compose(final_handler) of zap-napi/middleware.rs and one call of the result
MwZapCompose(kind) ==
    MwRan("zap.compose", TheHandler(kind),
          Invoke(Zap_compose(mwv_middlewares, <<>>), TheHandler(kind), Req0, <<>>))

\* compose(final_handler) of napi-rs/middleware.rs and one call of the result
MwNapiCompose(kind) ==
    MwRan("napi.compose", TheHandler(kind),
          Invoke(Napi_compose(mwv_middlewares), TheHandler(kind), Req0, <<>>))

MwNext ==
    \/ \E kind \in MiddlewareKinds : MwCoreAdd(kind)
    \/ \E kind \in MiddlewareKinds : MwVecAdd(kind)
    \/ \E kind \in HandlerKinds : MwCoreExecute(kind)
    \/ \E kind \in HandlerKinds : MwZapCompose(kind)
    \/ \E kind \in HandlerKinds : MwNapiCompose(kind)


(***************************************************************************)
(* The core MiddlewareChain shared by several threads.  The chain is Clone *)
(* over an Arc<DashMap>, add takes &self, and its two statements are two   *)
(* separate DashMap operations.                                            *)
(***************************************************************************)
MaxAdders == 2

Adders == 1..MaxAdders

ArFrame == UNCHANGED <<zapVars, hookVars, mwVars, coreVars, napiVars, jsVars, zcVars, clVars, hxVars, rrVars, csVars, jlVars>>

ArInit ==
    /\ ar_middlewares = EmptyMap
    /\ ar_pc = [t \in Adders |-> None]
    /\ ar_started = 0
    /\ ar_done = <<>>
    /\ ar_run = None

\* add, first statement: let next_idx = self.middlewares.len();
\* (the middleware of the n-th add begun is named n)
ArLen(t, kind) ==
    /\ ar_pc[t] = None
    /\ ar_started < MaxMiddlewares
    /\ ar_pc' = [ar_pc EXCEPT ![t] =
                    Some([next_idx |-> Cardinality(DOMAIN ar_middlewares),
                          middleware |-> [kind |-> kind, n |-> ar_started + 1]])]
    /\ ar_started' = ar_started + 1
    /\ UNCHANGED <<ar_middlewares, ar_done, ar_run>>
    /\ ArFrame

\* add, second statement: self.middlewares.insert(next_idx, Arc::new(middleware));
ArInsert(t) ==
    /\ ar_pc[t] # None
    /\ ar_middlewares' =
           MapInsert(ar_middlewares, ar_pc[t][1].next_idx, ar_pc[t][1].middleware)
    /\ ar_done' = Append(ar_done, ar_pc[t][1].middleware.n)
    /\ ar_pc' = [ar_pc EXCEPT ![t] = None]
    /\ ar_run' = None
    /\ UNCHANGED ar_started
    /\ ArFrame

\* execute on the shared chain
ArExecute(kind) ==
    /\ ar_run' = Some([handler |-> TheHandler(kind),
                       out |-> Core_execute(ar_middlewares, Req0, TheHandler(kind))])
    /\ UNCHANGED <<ar_middlewares, ar_pc, ar_started, ar_done>>
    /\ ArFrame

ArNext ==
    \/ \E t \in Adders, kind \in MiddlewareKinds : ArLen(t, kind)
    \/ \E t \in Adders : ArInsert(t)
    \/ \E kind \in HandlerKinds : ArExecute(kind)

(***************************************************************************)
(* src/src/router.rs                                                       *)
(***************************************************************************)
\* Hooks::new()
CoreHooksNew ==
    [pre_routing |-> <<>>, post_routing |-> <<>>, pre_handler |-> <<>>,
     post_handler |-> <<>>, error_hooks |-> <<>>]

\* The outcome of Router::handle: its result, what the trie lookup gave (None
\* when the lookup did not run or found nothing) and what ran, in order.
HandleOutcome(result, found, trace) ==
    [result |-> result, found |-> found, trace |-> trace]

HookEvents(phase, calls) == [i \in DOMAIN calls |-> Event(phase, calls[i].n)]

\* Router::handle from the trie lookup's value on (lines 73-92).
CoreHandleFound(hooks, middleware, req, found, trace0) ==
    IF found.handler = None
    THEN HandleOutcome(Err(Error("RouteNotFound", Tag("router", 0), req.path)),
                       None, trace0)
    ELSE LET post_routing == Core_execute_post_routing(hooks.post_routing, req)
             trace1 == trace0 \o HookEvents("post_routing", post_routing.calls)
         IN  IF ~post_routing.result.ok
             THEN HandleOutcome(post_routing.result, found.handler, trace1)
             ELSE
         LET pre_handler == Core_execute_pre_handler(hooks.pre_handler,
                                                     post_routing.result.val[1])
             trace2 == trace1 \o HookEvents("pre_handler", pre_handler.calls)
         IN  IF ~pre_handler.result.ok
             THEN HandleOutcome(pre_handler.result, found.handler, trace2)
             ELSE
         LET executed == Core_execute(middleware, pre_handler.result.val[1],
                                      found.handler[1])
             trace3 == trace2 \o executed.trace
         IN  IF ~executed.result.ok
             THEN HandleOutcome(executed.result, found.handler, trace3)
             ELSE
         LET post_handler == Core_execute_post_handler(hooks.post_handler,
                                                       executed.result.val[1])
         IN  HandleOutcome(post_handler.result, found.handler,
                           trace3 \o HookEvents("post_handler", post_handler.calls))

\* Router::handle: the set of its possible outcomes.
Core_handle(routes, hooks, middleware, req) ==
    LET pre_routing == Core_execute_pre_routing(hooks.pre_routing, req)
        trace0 == HookEvents("pre_routing", pre_routing.calls)
    IN  IF ~pre_routing.result.ok
        THEN {HandleOutcome(pre_routing.result, None, trace0)}
        ELSE LET req1 == pre_routing.result.val[1]
                 finds == IF req1.method \in DOMAIN routes
                          THEN CoreFind(routes[req1.method], req1.path)
                          ELSE {[handler |-> None, params |-> EmptyMap]}
             IN  {CoreHandleFound(hooks, middleware, req1, found, trace0) :
                      found \in finds}

(***************************************************************************)
(* src/src/error.rs                                                        *)
(***************************************************************************)
\* Error::status_code
CoreStatusCode(err) ==
    CASE err.kind = "RouteNotFound" -> 404
      [] err.kind = "InvalidRoutePattern" -> 400
      [] OTHER -> 500

\* #[error("...: {0}")]: the Display text of an Error.
CoreToString(err) ==
    <<CASE err.kind = "RouteNotFound" -> "Route not found: "
        [] err.kind = "InvalidRoutePattern" -> "Invalid route pattern: "
        [] err.kind = "MiddlewareError" -> "Middleware error: "
        [] err.kind = "Internal" -> "Internal server error: "
        [] err.kind = "Hyper" -> "Hyper error: "
        [] OTHER -> "IO error: ">> \o err.msg


(***************************************************************************)
(* src/src/store.rs: the Store of the core crate.  Its routes are a        *)
(* DashMap, whose iteration order is not specified: lookup is computed for *)
(* an order given to it, and the action chooses any order of the keys.     *)
(***************************************************************************)
MaxStoreRoutes == 3

ParamWord == <<":", "p", "a", "r", "a", "m">>

\* normalize_path: each segment that starts with ':' gives its name to params
\* and becomes ":param"; the segments are joined by "/" after a leading "/".
RECURSIVE StoreNormalizeSegments(_, _, _)
StoreNormalizeSegments(segments, normalized, params) ==
    IF segments = <<>>
    THEN [normalized |-> normalized, params |-> params]
    ELSE IF StartsWithColon(Head(segments))
         THEN StoreNormalizeSegments(Tail(segments), Append(normalized, ParamWord),
                                     Append(params, Tail(Head(segments))))
         ELSE StoreNormalizeSegments(Tail(segments), Append(normalized, Head(segments)),
                                     params)

CoreStore_normalize_path(path) ==
    LET r == StoreNormalizeSegments(Split(path), <<>>, <<>>)
    IN  [normalized_path |-> <<"/">> \o Join(r.normalized), params |-> r.params]

\* path.contains('*')
ContainsStar(path) == \E i \in 1..Len(path) : path[i] = "*"

\* matches_route from its i-th stored segment on (i counts from 1, param_index
\* from 0); path_params is route_params.path_params, written as the loop goes.
RECURSIVE StoreMatchLoop(_, _, _, _, _, _)
StoreMatchLoop(path_segments, stored_segments, param_names, i, param_index, path_params) ==
    IF i > Len(stored_segments)
    THEN [matched |-> TRUE, path_params |-> path_params]
    ELSE LET stored == stored_segments[i]
         IN  IF stored = ParamWord
             THEN IF i <= Len(path_segments)
                  THEN IF param_index < Len(param_names)
                       THEN StoreMatchLoop(path_segments, stored_segments, param_names,
                                i + 1, param_index + 1,
                                MapInsert(path_params, param_names[param_index + 1],
                                          path_segments[i]))
                       ELSE StoreMatchLoop(path_segments, stored_segments, param_names,
                                i + 1, param_index, path_params)
                  ELSE [matched |-> FALSE, path_params |-> path_params]
             ELSE IF IsStar(stored)
             THEN [matched |-> TRUE, path_params |-> path_params]
             ELSE IF i > Len(path_segments) \/ stored # path_segments[i]
             THEN [matched |-> FALSE, path_params |-> path_params]
             ELSE StoreMatchLoop(path_segments, stored_segments, param_names,
                                 i + 1, param_index, path_params)

CoreStore_matches_route(path_segments, stored_segments, param_names, path_params) ==
    IF Len(path_segments) # Len(stored_segments)
    THEN [matched |-> FALSE, path_params |-> path_params]
    ELSE StoreMatchLoop(path_segments, stored_segments, param_names, 1, 0, path_params)

\* for entry in self.routes.iter() { ... }, visiting the keys in the order given
RECURSIVE StoreLookupLoop(_, _, _, _)
StoreLookupLoop(routes, path_segments, order, path_params) ==
    IF order = <<>>
    THEN [handler |-> None, path_params |-> path_params]
    ELSE LET stored_path == Head(order)
             entry == routes[stored_path]
             entry_segments == Split(stored_path)
         IN  IF Len(path_segments) # Len(entry_segments) /\ ~entry.is_wildcard
             THEN StoreLookupLoop(routes, path_segments, Tail(order), path_params)
             ELSE LET m == CoreStore_matches_route(path_segments, entry_segments,
                                               entry.params, path_params)
                  IN  IF m.matched
                      THEN [handler |-> Some(entry.handler),
                            path_params |-> m.path_params]
                      ELSE StoreLookupLoop(routes, path_segments, Tail(order),
                                           m.path_params)

\* Store::lookup(path, params) with params empty on entry
CoreStore_lookup(routes, path, order) ==
    IF path \in DOMAIN routes
    THEN [handler |-> Some(routes[path].handler), path_params |-> EmptyMap]
    ELSE StoreLookupLoop(routes, Split(path), order, EmptyMap)

\* The orders the iteration of the map can take: every order of its keys.
StoreOrders(routes) ==
    {o \in [1..Cardinality(DOMAIN routes) -> DOMAIN routes] :
        \A i, j \in DOMAIN o : i # j => o[i] # o[j]}

StorePatterns ==
    { <<"/", "u", "/", ":", "i">>, <<"/", ":", "j", "/", "m">>,
      <<"/", "u", "/", "m">>, <<"/", "u", "/", "*">> }

StorePaths ==
    { <<"/", "u", "/", "m">>, <<"/", "u", "/", "7">>, <<"/", "v", "/", "m">>,
      <<"/", "v">> }

CsFrame == UNCHANGED <<zapVars, hookVars, mwVars, coreVars, napiVars, jsVars, zcVars, clVars, hxVars, arVars, rrVars, jlVars>>

CsInit ==
    /\ cs_routes = EmptyMap
    /\ cs_count = 0
    /\ cs_out = None

\* Store::register(path, handler); the handler of the n-th call is named n
CsRegister(path) ==
    /\ cs_count < MaxStoreRoutes
    /\ LET np == CoreStore_normalize_path(path)
           entry == [handler |-> cs_count + 1, params |-> np.params,
                     is_wildcard |-> ContainsStar(path)]
       IN  cs_routes' = MapInsert(cs_routes, np.normalized_path, entry)
    /\ cs_count' = cs_count + 1
    /\ cs_out' = None
    /\ CsFrame

\* Store::lookup(path, &mut RouteParams::default())
CsLookup(path) ==
    /\ \E order \in StoreOrders(cs_routes) :
           cs_out' = Some([path |-> path, order |-> order,
                           result |-> CoreStore_lookup(cs_routes, path, order)])
    /\ UNCHANGED <<cs_routes, cs_count>>
    /\ CsFrame

CsNext ==
    \/ \E path \in StorePatterns : CsRegister(path)
    \/ \E path \in StorePaths : CsLookup(path)

(***************************************************************************)
(* src/src/router.rs: the service of Router::serve                         *)
(***************************************************************************)
\* Response::new(Body::from(err.to_string())) with err.status_code()
CoreDefaultResponse(err) ==
    Response(CoreStatusCode(err), Tag("default", 0), CoreToString(err))

\* What the service answers for one outcome of handle: the error hooks it
\* called and its result, Some(response) when it resolved the request.
ServeOutcome(handled, error_calls, served) ==
    [handled |-> handled, error_calls |-> error_calls, served |-> served]

\* The service that answers nothing when no error hook recovers.
CoreServeWithoutDefault(hooks, handled) ==
    IF handled.result.ok
    THEN ServeOutcome(handled, <<>>, Some(handled.result.val[1]))
    ELSE LET recovered == Core_execute_error_hooks(hooks.error_hooks,
                                                   handled.result.err[1])
         IN  ServeOutcome(handled, recovered.calls,
                          IF recovered.result.ok
                          THEN Some(recovered.result.val[1])
                          ELSE None)

\* The body of the service_fn closure of Router::serve (lines 102-114), for
\* the outcome handled of router.handle(req).
Core_serve(hooks, handled) ==
    IF handled.result.ok
    THEN ServeOutcome(handled, <<>>, Some(handled.result.val[1]))
    ELSE LET recovered == Core_execute_error_hooks(hooks.error_hooks,
                                                   handled.result.err[1])
         IN  ServeOutcome(handled, recovered.calls,
                          Some(IF recovered.result.ok
                               THEN recovered.result.val[1]
                               ELSE CoreDefaultResponse(recovered.result.err[1])))

\* The (method, pattern) pairs the core Router's route calls draw from, and
\* the requests handled.
CoreRouteInputs ==
    { <<GET, <<"/">> >>,
      <<GET, <<"/", "u">> >>,
      <<GET, <<"/", "u", "/", ":", "i">> >>,
      <<GET, <<"/", "u", "/", "m">> >>,
      <<POST, <<"/", "u">> >> }

CoreRequestInputs ==
    { <<GET, <<"/">> >>,
      <<GET, <<"/", "u">> >>,
      <<GET, <<"/", "u", "/", "7">> >>,
      <<GET, <<"/", "u", "/", "m">> >>,
      <<POST, <<"/", "u">> >> }

\* The Hooks values with_hooks is called with.
CoreHooksInputs ==
    { [CoreHooksNew EXCEPT !.pre_routing = <<[kind |-> "ok", n |-> 1]>>,
                           !.post_handler = <<[kind |-> "ok", n |-> 1]>>,
                           !.error_hooks = <<[kind |-> "ok", n |-> 1]>>],
      [CoreHooksNew EXCEPT !.pre_routing = <<[kind |-> "fail", n |-> 1]>>],
      [CoreHooksNew EXCEPT !.error_hooks = <<[kind |-> "fail", n |-> 1],
                                             [kind |-> "fail", n |-> 2]>>] }

\* The chains with_middleware is called with.
CoreMiddlewareInputs == { (0 :> [kind |-> "pass", n |-> 1]) }

CrFrame == UNCHANGED <<zapVars, hookVars, mwVars, napiVars, jsVars, zcVars, clVars, hxVars, arVars, rrVars, csVars, jlVars>>

\* Router::new()
CrInit ==
    /\ cr_routes = EmptyMap
    /\ cr_hooks = CoreHooksNew
    /\ cr_middleware = EmptyMap
    /\ cr_reg = <<>>
    /\ cr_out = None

\* Router::route(method, path, handler) (get, post, put, delete call it):
\* always Ok.  The handler registered n-th is named n.
CrRoute(method, path, kind) ==
    /\ Len(cr_reg) < MaxCoreRoutes
    /\ LET handler == [kind |-> kind, n |-> Len(cr_reg) + 1]
       IN  /\ cr_routes' =
                 IF method \in DOMAIN cr_routes
                 THEN [cr_routes EXCEPT ![method] = CoreInsert(@, path, handler)]
                 ELSE MapInsert(cr_routes, method,
                                CoreInsert(CoreNewNode, path, handler))
           /\ cr_reg' = Append(cr_reg, [method |-> method, path |-> path,
                                        handler |-> handler])
    /\ cr_out' = None
    /\ UNCHANGED <<cr_hooks, cr_middleware>>
    /\ CrFrame

\* Router::with_hooks(hooks)
CrWithHooks(hooks) ==
    /\ cr_hooks' = hooks
    /\ cr_out' = None
    /\ UNCHANGED <<cr_routes, cr_middleware, cr_reg>>
    /\ CrFrame

\* Router::with_middleware(middleware)
CrWithMiddleware(middleware) ==
    /\ cr_middleware' = middleware
    /\ cr_out' = None
    /\ UNCHANGED <<cr_routes, cr_hooks, cr_reg>>
    /\ CrFrame

\* Router::handle(req)
CrHandle(method, path) ==
    /\ \E out \in Core_handle(cr_routes, cr_hooks, cr_middleware, Request(method, path)) :
          cr_out' = Some([fn |-> "handle", method |-> method, path |-> path,
                          out |-> out, error_calls |-> <<>>, served |-> None])
    /\ UNCHANGED <<cr_routes, cr_hooks, cr_middleware, cr_reg>>
    /\ CrFrame

\* One request to the service built by Router::serve.
CrServe(method, path) ==
    /\ \E out \in Core_handle(cr_routes, cr_hooks, cr_middleware, Request(method, path)) :
          LET answer == Core_serve(cr_hooks, out)
          IN  cr_out' = Some([fn |-> "serve", method |-> method, path |-> path,
                              out |-> out, error_calls |-> answer.error_calls,
                              served |-> answer.served])
    /\ UNCHANGED <<cr_routes, cr_hooks, cr_middleware, cr_reg>>
    /\ CrFrame

CrNext ==
    \/ \E r \in CoreRouteInputs, kind \in HandlerKinds : CrRoute(r[1], r[2], kind)
    \/ \E hooks \in CoreHooksInputs : CrWithHooks(hooks)
    \/ \E middleware \in CoreMiddlewareInputs : CrWithMiddleware(middleware)
    \/ \E r \in CoreRequestInputs : CrHandle(r[1], r[2])
    \/ \E r \in CoreRequestInputs : CrServe(r[1], r[2])

(***************************************************************************)
(* napi-rs/trie.rs                                                         *)
(***************************************************************************)
NapiNewNode ==
    [value |-> None, children |-> EmptyMap, param_child |-> None,
     wildcard |-> None, is_param |-> FALSE]

\* TrieNode::insert_segments
RECURSIVE NapiInsertSegments(_, _, _)
NapiInsertSegments(self, segments, value) ==
    IF segments = <<>>
    THEN [self EXCEPT !.value = Some(value)]
    ELSE LET segment == Head(segments)
             remaining == Tail(segments)
         IN  IF StartsWithColon(segment)
             THEN LET pc == IF self.param_child = None
                            THEN [NapiNewNode EXCEPT !.is_param = TRUE]
                            ELSE self.param_child[1]
                  IN  [self EXCEPT !.param_child =
                          Some(NapiInsertSegments(pc, remaining, value))]
             ELSE IF IsStar(segment)
             THEN IF self.wildcard = None
                  THEN [self EXCEPT !.wildcard =
                           Some([NapiNewNode EXCEPT !.value = Some(value)])]
                  ELSE self
             ELSE LET node == IF segment \in DOMAIN self.children
                              THEN self.children[segment]
                              ELSE NapiNewNode
                  IN  [self EXCEPT !.children =
                          MapInsert(self.children, segment,
                                    NapiInsertSegments(node, remaining, value))]

\* TrieNode::insert
NapiInsert(self, path, value) == NapiInsertSegments(self, Split(path), value)

\* TrieNode::lookup_segments: the value found and the params map as the call
\* leaves it (params is one map, written in place all along the walk).
RECURSIVE NapiLookupSegments(_, _, _)
NapiLookupSegments(self, segments, params) ==
    IF segments = <<>>
    THEN [value |-> self.value, params |-> params]
    ELSE LET segment == Head(segments)
             remaining == Tail(segments)
             static == IF segment \in DOMAIN self.children
                       THEN NapiLookupSegments(self.children[segment], remaining, params)
                       ELSE [value |-> None, params |-> params]
             param_name == segment
             bound == IF self.is_param
                      THEN MapInsert(static.params, param_name, segment)
                      ELSE static.params
             param == IF self.param_child # None
                      THEN NapiLookupSegments(self.param_child[1], remaining, bound)
                      ELSE [value |-> None, params |-> static.params]
         IN  IF static.value # None THEN static
             ELSE IF param.value # None THEN param
             ELSE [value |-> IF self.wildcard # None THEN self.wildcard[1].value ELSE None,
                   params |-> param.params]

\* TrieNode::lookup
NapiLookup(self, path, params) == NapiLookupSegments(self, Split(path), params)

(***************************************************************************)
(* napi-rs/store.rs                                                        *)
(***************************************************************************)
\* Store::register: `let method = Method::GET`.
Store_register(routes, path, handler) ==
    LET method == GET
        trie == IF method \in DOMAIN routes THEN routes[method] ELSE NapiNewNode
    IN  MapInsert(routes, method, NapiInsert(trie, path, handler))

\* Store::lookup: `let method = Method::GET`.
Store_lookup(routes, path, params) ==
    LET method == GET
    IN  IF method \in DOMAIN routes
        THEN NapiLookup(routes[method], path, params)
        ELSE [value |-> None, params |-> params]

(***************************************************************************)
(* napi-rs/error.rs                                                        *)
(***************************************************************************)
\* Error::status_code
NapiStatusCode(err) ==
    CASE err.kind = "RouteNotFound" -> 404
      [] err.kind = "InvalidRequest" -> 400
      [] OTHER -> 500

\* impl Display for Error
NapiToString(err) ==
    <<CASE err.kind = "RouteNotFound" -> "Route not found: "
        [] err.kind = "InvalidRequest" -> "Invalid request: "
        [] err.kind = "HandlerError" -> "Handler error: "
        [] OTHER -> "Internal error: ">> \o err.msg

(***************************************************************************)
(* napi-rs/router.rs                                                       *)
(***************************************************************************)
\* The outcome of Router::handle: its result, what Store::lookup gave (None
\* when the lookup did not run or found nothing), the path params the lookup
\* left, what ran in the chain, and the error hooks called.
NapiOutcome(result, found, params, trace, error_calls) ==
    [result |-> result, found |-> found, params |-> params, trace |-> trace,
     error_calls |-> error_calls]

\* Response::new(Body::from(format!("Error: {}", err))) with err.status_code()
NapiDefaultResponse(err) ==
    Response(NapiStatusCode(err), Tag("default", 0), <<"Error: ">> \o NapiToString(err))

\* NapiHandleResponse that also runs the post-handler hooks over the response
\* an error hook recovered.
NapiHandleResponseBoth(hooks, response, found, params, trace) ==
    IF response.ok
    THEN IF hooks # None
         THEN NapiOutcome(Napi_execute_post_handler(hooks[1].post_handler,
                                                    response.val[1]).result,
                          found, params, trace, <<>>)
         ELSE NapiOutcome(response, found, params, trace, <<>>)
    ELSE IF hooks # None
         THEN LET recovered == Napi_execute_error_hooks(hooks[1].error_hooks,
                                                        response.err[1])
              IN  NapiOutcome(IF recovered.result.ok
                              THEN Napi_execute_post_handler(
                                       hooks[1].post_handler,
                                       recovered.result.val[1]).result
                              ELSE recovered.result,
                              found, params, trace, recovered.calls)
         ELSE NapiOutcome(Ok(NapiDefaultResponse(response.err[1])), found, params,
                          trace, <<>>)

\* Router::handle from the chain's result on (lines 88-105).
NapiHandleResponse(hooks, response, found, params, trace) ==
    IF response.ok
    THEN IF hooks # None
         THEN NapiOutcome(Napi_execute_post_handler(hooks[1].post_handler,
                                                    response.val[1]).result,
                          found, params, trace, <<>>)
         ELSE NapiOutcome(response, found, params, trace, <<>>)
    ELSE IF hooks # None
         THEN LET recovered == Napi_execute_error_hooks(hooks[1].error_hooks,
                                                        response.err[1])
              IN  NapiOutcome(recovered.result, found, params, trace, recovered.calls)
         ELSE NapiOutcome(Ok(NapiDefaultResponse(response.err[1])), found, params,
                          trace, <<>>)

\* Napi_handle that answers an unmatched path like a failed handler: through
\* the error hooks, or with the default response.
NapiHandleAnsweringNotFound(store, hooks, middleware, req) ==
    LET pre_routing == IF hooks # None
                       THEN Napi_execute_pre_routing(hooks[1].pre_routing, req).result
                       ELSE Ok(req)
    IN  IF ~pre_routing.ok
        THEN NapiOutcome(pre_routing, None, EmptyMap, <<>>, <<>>)
        ELSE
    LET req1 == pre_routing.val[1]
        looked == Store_lookup(store, req1.path, EmptyMap)
        chain == IF looked.value = None
                 THEN [result |-> Err(Error("RouteNotFound", Tag("router", 0), req1.path)),
                       trace |-> <<>>]
                 ELSE IF middleware # None
                 THEN Invoke(Napi_compose(middleware[1]), looked.value[1], req1, <<>>)
                 ELSE CallHandler(looked.value[1], req1, <<>>)
    IN  NapiHandleResponse(hooks, chain.result, looked.value, looked.params, chain.trace)

\* Napi_handle that gives the chain the request handle was called with, not
\* the one the pre-routing hooks returned.
NapiHandleOriginalRequest(store, hooks, middleware, req) ==
    LET pre_routing == IF hooks # None
                       THEN Napi_execute_pre_routing(hooks[1].pre_routing, req).result
                       ELSE Ok(req)
    IN  IF ~pre_routing.ok
        THEN NapiOutcome(pre_routing, None, EmptyMap, <<>>, <<>>)
        ELSE
    LET looked == Store_lookup(store, req.path, EmptyMap)
    IN  IF looked.value = None
        THEN NapiOutcome(Err(Error("RouteNotFound", Tag("router", 0), req.path)),
                         None, looked.params, <<>>, <<>>)
        ELSE
    LET handler == looked.value[1]
        chain == IF middleware # None
                 THEN Invoke(Napi_compose(middleware[1]), handler, req, <<>>)
                 ELSE CallHandler(handler, req, <<>>)
    IN  NapiHandleResponse(hooks, chain.result, looked.value, looked.params, chain.trace)

\* Napi_handle that goes on to the lookup with the request it was given when
\* a pre-routing hook fails.
NapiHandleDespitePreRouting(store, hooks, middleware, req) ==
    LET pre_routing == IF hooks # None
                       THEN Napi_execute_pre_routing(hooks[1].pre_routing, req).result
                       ELSE Ok(req)
        req1 == IF pre_routing.ok THEN pre_routing.val[1] ELSE req
        looked == Store_lookup(store, req1.path, EmptyMap)
    IN  IF looked.value = None
        THEN NapiOutcome(Err(Error("RouteNotFound", Tag("router", 0), req1.path)),
                         None, looked.params, <<>>, <<>>)
        ELSE
    LET handler == looked.value[1]
        chain == IF middleware # None
                 THEN Invoke(Napi_compose(middleware[1]), handler, req1, <<>>)
                 ELSE CallHandler(handler, req1, <<>>)
    IN  NapiHandleResponse(hooks, chain.result, looked.value, looked.params, chain.trace)

\* Router::handle.  The requests of the model carry no query string, so the
\* loop over the query pairs (lines 70-76) adds nothing.
Napi_handle(store, hooks, middleware, req) ==
    LET pre_routing == IF hooks # None
                       THEN Napi_execute_pre_routing(hooks[1].pre_routing, req).result
                       ELSE Ok(req)
    IN  IF ~pre_routing.ok
        THEN NapiOutcome(pre_routing, None, EmptyMap, <<>>, <<>>)
        ELSE
    LET req1 == pre_routing.val[1]
        looked == Store_lookup(store, req1.path, EmptyMap)
    IN  IF looked.value = None
        THEN NapiOutcome(Err(Error("RouteNotFound", Tag("router", 0), req1.path)),
                         None, looked.params, <<>>, <<>>)
        ELSE
    LET handler == looked.value[1]
        chain == IF middleware # None
                 THEN Invoke(Napi_compose(middleware[1]), handler, req1, <<>>)
                 ELSE CallHandler(handler, req1, <<>>)
    IN  NapiHandleResponse(hooks, chain.result, looked.value, looked.params, chain.trace)

\* The patterns the get and post calls draw from and the requests handled.
NapiPatterns ==
    { <<"/", "u">>,
      <<"/", "u", "/", ":", "i">>,
      <<"/", "u", "/", ":", "i", "/", ":", "k">> }

NapiRequestInputs ==
    { <<GET, <<"/", "u">> >>,
      <<POST, <<"/", "u">> >>,
      <<GET, <<"/", "u", "/", "7">> >>,
      <<GET, <<"/", "u", "/", "7", "/", "9">> >>,
      <<GET, <<"/", "v">> >> }

\* The Hooks values with_hooks is called with.
NapiHooksInputs ==
    { [pre_routing |-> <<[kind |-> "ok", n |-> 1]>>,
       post_handler |-> <<[kind |-> "ok", n |-> 1]>>,
       error_hooks |-> <<[kind |-> "ok", n |-> 1]>>],
      [pre_routing |-> <<[kind |-> "fail", n |-> 1]>>,
       post_handler |-> <<>>,
       error_hooks |-> <<[kind |-> "ok", n |-> 1]>>],
      [pre_routing |-> <<>>,
       post_handler |-> <<[kind |-> "fail", n |-> 1]>>,
       error_hooks |-> <<[kind |-> "fail", n |-> 1]>>] }

\* The chains with_middleware is called with.
NapiMiddlewareInputs ==
    { <<[kind |-> "pass", n |-> 1]>>, <<[kind |-> "fail", n |-> 1]>> }

NrFrame == UNCHANGED <<zapVars, hookVars, mwVars, coreVars, jsVars, zcVars, clVars, hxVars, arVars, rrVars, csVars, jlVars>>

\* Router::new()
NrInit ==
    /\ nr_store = EmptyMap
    /\ nr_hooks = None
    /\ nr_middleware = None
    /\ nr_reg = <<>>
    /\ nr_out = None

\* Router::get(path, handler): Arc::get_mut(&mut self.store) succeeds (the
\* Router never clones the Arc), then Store::register.  The handler
\* registered n-th is named n.
NrGet(path, kind) ==
    /\ Len(nr_reg) < MaxNapiRoutes
    /\ LET handler == [kind |-> kind, n |-> Len(nr_reg) + 1]
       IN  /\ nr_store' = Store_register(nr_store, path, handler)
           /\ nr_reg' = Append(nr_reg, [via |-> GET, path |-> path, handler |-> handler])
    /\ nr_out' = None
    /\ UNCHANGED <<nr_hooks, nr_middleware>>
    /\ NrFrame

\* Router::post(path, handler): the same body as get.
NrPost(path, kind) ==
    /\ Len(nr_reg) < MaxNapiRoutes
    /\ LET handler == [kind |-> kind, n |-> Len(nr_reg) + 1]
       IN  /\ nr_store' = Store_register(nr_store, path, handler)
           /\ nr_reg' = Append(nr_reg, [via |-> POST, path |-> path, handler |-> handler])
    /\ nr_out' = None
    /\ UNCHANGED <<nr_hooks, nr_middleware>>
    /\ NrFrame

\* Router::with_hooks(hooks)
NrWithHooks(hooks) ==
    /\ nr_hooks' = Some(hooks)
    /\ nr_out' = None
    /\ UNCHANGED <<nr_store, nr_middleware, nr_reg>>
    /\ NrFrame

\* Router::with_middleware(middleware)
NrWithMiddleware(middleware) ==
    /\ nr_middleware' = Some(middleware)
    /\ nr_out' = None
    /\ UNCHANGED <<nr_store, nr_hooks, nr_reg>>
    /\ NrFrame

\* Router::handle(req)
NrHandle(method, path) ==
    /\ nr_out' = Some([method |-> method, path |-> path,
                       out |-> Napi_handle(nr_store, nr_hooks, nr_middleware,
                                           Request(method, path))])
    /\ UNCHANGED <<nr_store, nr_hooks, nr_middleware, nr_reg>>
    /\ NrFrame

NrNext ==
    \/ \E path \in NapiPatterns, kind \in HandlerKinds : NrGet(path, kind)
    \/ \E path \in NapiPatterns : NrPost(path, "ok")
    \/ \E hooks \in NapiHooksInputs : NrWithHooks(hooks)
    \/ \E middleware \in NapiMiddlewareInputs : NrWithMiddleware(middleware)
    \/ \E r \in NapiRequestInputs : NrHandle(r[1], r[2])

(***************************************************************************)
(* napi-rs/src/router.rs                                                   *)
(***************************************************************************)
\* The closure get, post, use_middleware, add_hook and set_error_handler box
\* around the JavaScript function: it calls the function and blocks on the
\* reply; the reply is the result, and a reply channel dropped unanswered
\* gives Ok with a 500 response.
JsCallbackKinds == {"ok", "fail", "dropped"}

JsCallback(who, callback) ==
    CASE callback.kind = "ok" -> Ok(Response(200, Tag(who, callback.n), <<>>))
      [] callback.kind = "fail" -> Err(Error("napi", Tag(who, callback.n), <<>>))
      [] OTHER -> Ok(Response(500, Tag(who, callback.n), <<"Internal Server Error">>))

\* for callback in callbacks.iter() { callback(request.clone())?; }
RECURSIVE JsForEach(_, _, _)
JsForEach(who, callbacks, trace) ==
    IF callbacks = <<>>
    THEN [failed |-> None, trace |-> trace]
    ELSE LET result == JsCallback(who, Head(callbacks))
             called == Append(trace, Event(who, Head(callbacks).n))
         IN  IF ~result.ok
             THEN [failed |-> Some(result), trace |-> called]
             ELSE JsForEach(who, Tail(callbacks), called)

\* format!("{} {}", method, uri)
JsRouteKey(method, uri) == method \o <<" ">> \o uri

\* The 404 response handle builds when no error handler is set.
JsNotFoundResponse == Response(404, Tag("default", 0), <<"Not Found">>)

\* The outcome of JsRouter::handle: its result, the callback the map lookup
\* gave (None when the lookup did not run or found nothing) and what was
\* called, in order.
JsOutcome(result, found, trace) == [result |-> result, found |-> found, trace |-> trace]

\* JsRouter::handle
JsRouter_handle(routes, middlewares, hooks, error_handler, request) ==
    LET ran_middlewares == JsForEach("middleware", middlewares, <<>>)
    IN  IF ran_middlewares.failed # None
        THEN JsOutcome(ran_middlewares.failed[1], None, ran_middlewares.trace)
        ELSE
    LET ran_hooks == JsForEach("hook", hooks, ran_middlewares.trace)
    IN  IF ran_hooks.failed # None
        THEN JsOutcome(ran_hooks.failed[1], None, ran_hooks.trace)
        ELSE
    LET route_key == JsRouteKey(request.method, request.path)
    IN  IF route_key \in DOMAIN routes
        THEN LET handler == routes[route_key]
             IN  JsOutcome(JsCallback("handler", handler), Some(handler),
                           Append(ran_hooks.trace, Event("handler", handler.n)))
        ELSE IF error_handler # None
        THEN JsOutcome(JsCallback("error", error_handler[1]), None,
                       Append(ran_hooks.trace, Event("error", error_handler[1].n)))
        ELSE JsOutcome(Ok(JsNotFoundResponse), None, ran_hooks.trace)

\* The patterns the get and post calls draw from and the requests handled.
JsPatterns == { <<"/", "u">>, <<"/", "u", "/", ":", "i">> }

JsRequestInputs ==
    { <<GET, <<"/", "u">> >>,
      <<POST, <<"/", "u">> >>,
      <<GET, <<"/", "u", "/", "7">> >>,
      <<GET, <<"/", "v">> >> }

JsFrame == UNCHANGED <<zapVars, hookVars, mwVars, coreVars, napiVars, zcVars, clVars, hxVars, arVars, rrVars, csVars, jlVars>>

\* JsRouter::new()
JsInit ==
    /\ js_routes = EmptyMap
    /\ js_middlewares = <<>>
    /\ js_hooks = <<>>
    /\ js_error_handler = None
    /\ js_reg = <<>>
    /\ js_out = None

\* JsRouter::get(path, handler).  The handler registered n-th is named n.
JsGet(path, kind) ==
    /\ Len(js_reg) < MaxJsRoutes
    /\ LET handler == [kind |-> kind, n |-> Len(js_reg) + 1]
       IN  /\ js_routes' = MapInsert(js_routes, GET \o <<" ">> \o path, handler)
           /\ js_reg' = Append(js_reg, [via |-> GET, path |-> path, handler |-> handler])
    /\ js_out' = None
    /\ UNCHANGED <<js_middlewares, js_hooks, js_error_handler>>
    /\ JsFrame

\* JsRouter::post(path, handler)
JsPost(path, kind) ==
    /\ Len(js_reg) < MaxJsRoutes
    /\ LET handler == [kind |-> kind, n |-> Len(js_reg) + 1]
       IN  /\ js_routes' = MapInsert(js_routes, POST \o <<" ">> \o path, handler)
           /\ js_reg' = Append(js_reg, [via |-> POST, path |-> path, handler |-> handler])
    /\ js_out' = None
    /\ UNCHANGED <<js_middlewares, js_hooks, js_error_handler>>
    /\ JsFrame

\* JsRouter::use_middleware(middleware)
JsUseMiddleware(kind) ==
    /\ Len(js_middlewares) < MaxJsCallbacks
    /\ js_middlewares' = Append(js_middlewares,
                                [kind |-> kind, n |-> Len(js_middlewares) + 1])
    /\ js_out' = None
    /\ UNCHANGED <<js_routes, js_hooks, js_error_handler, js_reg>>
    /\ JsFrame

\* JsRouter::add_hook(hook)
JsAddHook(kind) ==
    /\ Len(js_hooks) < MaxJsCallbacks
    /\ js_hooks' = Append(js_hooks, [kind |-> kind, n |-> Len(js_hooks) + 1])
    /\ js_out' = None
    /\ UNCHANGED <<js_routes, js_middlewares, js_error_handler, js_reg>>
    /\ JsFrame

\* JsRouter::set_error_handler(handler)
JsSetErrorHandler(kind) ==
    /\ js_error_handler' = Some([kind |-> kind, n |-> 1])
    /\ js_out' = None
    /\ UNCHANGED <<js_routes, js_middlewares, js_hooks, js_reg>>
    /\ JsFrame

\* JsRouter::handle(request)
JsHandle(method, uri) ==
    /\ js_out' = Some([method |-> method, path |-> uri,
                       out |-> JsRouter_handle(js_routes, js_middlewares, js_hooks,
                                               js_error_handler, Request(method, uri))])
    /\ UNCHANGED <<js_routes, js_middlewares, js_hooks, js_error_handler, js_reg>>
    /\ JsFrame

JsNext ==
    \/ \E path \in JsPatterns, kind \in JsCallbackKinds : JsGet(path, kind)
    \/ \E path \in JsPatterns : JsPost(path, "ok")
    \/ \E kind \in {"ok", "fail"} : JsUseMiddleware(kind)
    \/ \E kind \in {"ok", "fail"} : JsAddHook(kind)
    \/ \E kind \in {"ok", "fail"} : JsSetErrorHandler(kind)
    \/ \E r \in JsRequestInputs : JsHandle(r[1], r[2])


(***************************************************************************)
(* napi-rs/src/router.rs: the four tokio RwLocks of the JsRouter under     *)
(* concurrent calls.  A tokio RwLock queues its acquisitions in arrival    *)
(* order; a read is granted while no write guard is out, a write while no  *)
(* guard is out.  What the collections hold is the JsRouter machine above: *)
(* here the outcome of a callback or of the route lookup is a free choice, *)
(* and every callback returns.                                            *)
(***************************************************************************)
MaxJsCalls == 2

JsCalls == 1..MaxJsCalls

\* The fields of JsRouter, in the order handle takes their read locks.
JsLocks == <<"middlewares", "hooks", "routes", "error_handler">>

JsLockNames == {JsLocks[i] : i \in 1..Len(JsLocks)}

\* The lock each registration call writes.
JsWrites ==
    [get |-> "routes", post |-> "routes", use_middleware |-> "middlewares",
     add_hook |-> "hooks", set_error_handler |-> "error_handler"]

JlIdle == [op |-> "idle", lock |-> "none", granted |-> FALSE]

JlFrame == UNCHANGED <<zapVars, hookVars, mwVars, coreVars, napiVars, jsVars, zcVars, clVars, hxVars, arVars, rrVars, csVars>>

JlInit ==
    /\ jl_pc = [c \in JsCalls |-> JlIdle]
    /\ jl_readers = [l \in JsLockNames |-> {}]
    /\ jl_writer = [l \in JsLockNames |-> None]
    /\ jl_queue = [l \in JsLockNames |-> <<>>]

\* lock.read().await or lock.write().await is reached: the call queues.
JlAwait(c, op, l, mode) ==
    /\ jl_pc' = [jl_pc EXCEPT ![c] = [op |-> op, lock |-> l, granted |-> FALSE]]
    /\ jl_queue' = [jl_queue EXCEPT ![l] = Append(@, [call |-> c, mode |-> mode])]

\* A handle call that returns with its read guards still out.
JlHandleReturnKeepingGuards(c) ==
    /\ jl_pc[c].op = "handle"
    /\ jl_pc[c].granted
    /\ jl_pc' = [jl_pc EXCEPT ![c] = JlIdle]
    /\ UNCHANGED <<jl_readers, jl_writer, jl_queue>>
    /\ JlFrame

\* handle is called: let middlewares = self.middlewares.read().await;
JlHandleCall(c) ==
    /\ jl_pc[c] = JlIdle
    /\ JlAwait(c, "handle", "middlewares", "read")
    /\ UNCHANGED <<jl_readers, jl_writer>>
    /\ JlFrame

\* get, post, use_middleware, add_hook or set_error_handler is called: the
\* callback is built, then self.<field>.write().await
JlRegistrationCall(c, op) ==
    /\ jl_pc[c] = JlIdle
    /\ JlAwait(c, op, JsWrites[op], "write")
    /\ UNCHANGED <<jl_readers, jl_writer>>
    /\ JlFrame

\* The RwLock grants the acquisition at the head of its queue.
JlGrant(l) ==
    /\ jl_queue[l] # <<>>
    /\ jl_writer[l] = None
    /\ LET w == Head(jl_queue[l])
       IN  /\ IF w.mode = "read"
              THEN /\ jl_readers' = [jl_readers EXCEPT ![l] = @ \cup {w.call}]
                   /\ UNCHANGED jl_writer
              ELSE /\ jl_readers[l] = {}
                   /\ jl_writer' = [jl_writer EXCEPT ![l] = Some(w.call)]
                   /\ UNCHANGED jl_readers
           /\ jl_pc' = [jl_pc EXCEPT ![w.call].granted = TRUE]
    /\ jl_queue' = [jl_queue EXCEPT ![l] = Tail(@)]
    /\ JlFrame

\* handle goes on with the guard it was given: the middlewares or the hooks
\* all returned Ok and the next read lock is awaited, or no route has the
\* key and self.error_handler.read().await is reached.
JlHandleAdvance(c) ==
    /\ jl_pc[c].op = "handle"
    /\ jl_pc[c].granted
    /\ \E i \in 1..(Len(JsLocks) - 1) :
           /\ jl_pc[c].lock = JsLocks[i]
           /\ JlAwait(c, "handle", JsLocks[i + 1], "read")
    /\ UNCHANGED <<jl_readers, jl_writer>>
    /\ JlFrame

\* handle returns: a middleware or a hook failed (`?`), the route's handler
\* or the error handler answered, or the 404 was built.  Its read guards
\* are dropped at the end of the function.
JlHandleReturn(c) ==
    /\ jl_pc[c].op = "handle"
    /\ jl_pc[c].granted
    /\ jl_readers' = [l \in JsLockNames |-> jl_readers[l] \ {c}]
    /\ jl_pc' = [jl_pc EXCEPT ![c] = JlIdle]
    /\ UNCHANGED <<jl_writer, jl_queue>>
    /\ JlFrame

\* A registration call with its write guard: insert or push, Ok(()).
JlRegistrationReturn(c) ==
    /\ jl_pc[c].op \in DOMAIN JsWrites
    /\ jl_pc[c].granted
    /\ jl_writer' = [jl_writer EXCEPT ![jl_pc[c].lock] = None]
    /\ jl_pc' = [jl_pc EXCEPT ![c] = JlIdle]
    /\ UNCHANGED <<jl_readers, jl_queue>>
    /\ JlFrame

JlNext ==
    \/ \E c \in JsCalls : JlHandleCall(c)
    \/ \E c \in JsCalls, op \in DOMAIN JsWrites : JlRegistrationCall(c, op)
    \/ \E l \in JsLockNames : JlGrant(l)
    \/ \E c \in JsCalls : JlHandleAdvance(c)
    \/ \E c \in JsCalls : JlHandleReturn(c)
    \/ \E c \in JsCalls : JlRegistrationReturn(c)

\* The runtime polls every task that can go on, a callback returns, and a
\* lock serves the head of its queue once the guards in its way are dropped.
JlFairness ==
    /\ \A l \in JsLockNames : WF_vars(JlGrant(l))
    /\ \A c \in JsCalls : WF_vars(JlHandleAdvance(c) \/ JlHandleReturn(c))
    /\ \A c \in JsCalls : WF_vars(JlRegistrationReturn(c))

(***************************************************************************)
(* zap-napi/src/middleware/mod.rs and the route configs of                 *)
(* zap-napi/src/router/mod.rs                                              *)
(***************************************************************************)
\* The JsObject register_middleware was given for the id.
ZcObject(id) == [object |-> id]

\* MiddlewareChain::get_middlewares(ids): the cells of the ids that are
\* registered, in the order of ids (named by their ids).
ZcGetMiddlewares(middlewares, ids) ==
    SelectSeq(ids, LAMBDA id : id \in DOMAIN middlewares)

\* cells.into_iter().filter_map(|m| m.lock().unwrap().take()).collect():
\* each cell in turn gives its object and is left empty; an empty cell
\* gives nothing.
RECURSIVE ZcTakeAll(_, _, _)
ZcTakeAll(middlewares, cells, taken) ==
    IF cells = <<>>
    THEN [objects |-> taken, middlewares |-> middlewares]
    ELSE LET id == Head(cells)
         IN  IF middlewares[id] = None
             THEN ZcTakeAll(middlewares, Tail(cells), taken)
             ELSE ZcTakeAll([middlewares EXCEPT ![id] = None], Tail(cells),
                            Append(taken, middlewares[id][1]))

\* Router::get_middleware_chain / get_guards from the listed ids on: the
\* result and the cells afterwards.  listed is the config's field, None when
\* the handler has no config.
ZcCollect(middlewares, listed) ==
    IF listed = None
    THEN [result |-> None, middlewares |-> middlewares]
    ELSE LET took == ZcTakeAll(middlewares, ZcGetMiddlewares(middlewares, listed[1]),
                               <<>>)
         IN  [result |-> Some(took.objects), middlewares |-> took.middlewares]

\* The RouteConfig values register is called with.
RouteConfigInputs ==
    { [middleware |-> Some(<<1, 2>>), guards |-> Some(<<2>>),
       validation |-> Some([object |-> "validation"]), transform |-> None],
      [middleware |-> Some(<<1>>), guards |-> None,
       validation |-> None, transform |-> Some([object |-> "transform"])],
      [middleware |-> None, guards |-> Some(<<1>>),
       validation |-> None, transform |-> None] }

\* The path the routes with a config are registered for.
ZcPath == <<"/", "a">>

ZcFrame == UNCHANGED <<hookVars, mwVars, coreVars, napiVars, jsVars, clVars, hxVars, arVars, rrVars, csVars, jlVars>>

\* MiddlewareChain::new() and route_configs of Router::new
ZcInit ==
    /\ zc_middlewares = EmptyMap
    /\ zc_next_id = 1
    /\ zc_route_configs = EmptyMap
    /\ zc_out = None

\* Router::register_middleware(env, middleware): MiddlewareChain::register
ZcRegisterMiddleware ==
    /\ zc_next_id <= MaxZapMiddlewares
    /\ zc_middlewares' = MapInsert(zc_middlewares, zc_next_id,
                                   Some(ZcObject(zc_next_id)))
    /\ zc_next_id' = zc_next_id + 1
    /\ zc_out' = None
    /\ UNCHANGED <<zc_route_configs, zapVars>>
    /\ ZcFrame

\* Router::register(method, path, Some(config))
ZcRegister(method, path, config) ==
    /\ zn_next_id <= MaxRoutes
    /\ LET id == zn_next_id
       IN  /\ zn_next_id' = zn_next_id + 1
           /\ zn_routes' = ZnInsert(zn_routes, ZnFullPath(method, path), id)
           /\ zn_reg' = Append(zn_reg, [method |-> method, path |-> path, id |-> id,
                                        result |-> Ok(id)])
           /\ zc_route_configs' = MapInsert(zc_route_configs, id, config)
    /\ zn_info' = None
    /\ zc_out' = None
    /\ UNCHANGED <<zc_middlewares, zc_next_id>>
    /\ ZcFrame

\* Router::get_middleware_chain(handler_id)
ZcGetMiddlewareChain(handler_id) ==
    /\ LET got == ZcCollect(zc_middlewares,
                            IF handler_id \in DOMAIN zc_route_configs
                            THEN zc_route_configs[handler_id].middleware
                            ELSE None)
       IN  /\ zc_middlewares' = got.middlewares
           /\ zc_out' = Some([fn |-> "get_middleware_chain",
                              handler_id |-> handler_id, result |-> got.result])
    /\ UNCHANGED <<zc_next_id, zc_route_configs, zapVars>>
    /\ ZcFrame

\* Router::get_guards(handler_id)
ZcGetGuards(handler_id) ==
    /\ LET got == ZcCollect(zc_middlewares,
                            IF handler_id \in DOMAIN zc_route_configs
                            THEN zc_route_configs[handler_id].guards
                            ELSE None)
       IN  /\ zc_middlewares' = got.middlewares
           /\ zc_out' = Some([fn |-> "get_guards",
                              handler_id |-> handler_id, result |-> got.result])
    /\ UNCHANGED <<zc_next_id, zc_route_configs, zapVars>>
    /\ ZcFrame

\* Router::get_validation(handler_id):
\* configs.get_mut(&handler_id).and_then(|config| config.validation.take())
ZcGetValidation(handler_id) ==
    /\ IF handler_id \in DOMAIN zc_route_configs
       THEN /\ zc_out' = Some([fn |-> "get_validation", handler_id |-> handler_id,
                               result |-> zc_route_configs[handler_id].validation])
            /\ zc_route_configs' =
                   [zc_route_configs EXCEPT ![handler_id].validation = None]
       ELSE /\ zc_out' = Some([fn |-> "get_validation", handler_id |-> handler_id,
                               result |-> None])
            /\ UNCHANGED zc_route_configs
    /\ UNCHANGED <<zc_middlewares, zc_next_id, zapVars>>
    /\ ZcFrame

\* Router::get_transform(handler_id)
ZcGetTransform(handler_id) ==
    /\ IF handler_id \in DOMAIN zc_route_configs
       THEN /\ zc_out' = Some([fn |-> "get_transform", handler_id |-> handler_id,
                               result |-> zc_route_configs[handler_id].transform])
            /\ zc_route_configs' =
                   [zc_route_configs EXCEPT ![handler_id].transform = None]
       ELSE /\ zc_out' = Some([fn |-> "get_transform", handler_id |-> handler_id,
                               result |-> None])
            /\ UNCHANGED zc_route_configs
    /\ UNCHANGED <<zc_middlewares, zc_next_id, zapVars>>
    /\ ZcFrame

ZcNext ==
    \/ ZcRegisterMiddleware
    \/ \E config \in RouteConfigInputs : ZcRegister(GET, ZcPath, config)
    \/ \E handler_id \in 1..MaxRoutes : ZcGetMiddlewareChain(handler_id)
    \/ \E handler_id \in 1..MaxRoutes : ZcGetGuards(handler_id)
    \/ \E handler_id \in 1..MaxRoutes : ZcGetValidation(handler_id)
    \/ \E handler_id \in 1..MaxRoutes : ZcGetTransform(handler_id)

(***************************************************************************)
(* napi-rs/src/middleware.rs                                               *)
(***************************************************************************)
\* JsResponse::default()
JsResponseDefault == Response(200, Tag("default", 0), <<>>)

\* execute_middleware(index, request, handlers, cleanup_stack), with indices
\* from 1: the result, what was entered and the cleanup stack.  A "pass"
\* handler calls next and returns its result; a "short" one returns a
\* response and a "fail" one an error, neither calling next.
RECURSIVE ExecuteMiddleware(_, _, _, _)
ExecuteMiddleware(index, handlers, trace, cleanup_stack) ==
    IF index > Len(handlers)
    THEN [result |-> Ok(JsResponseDefault), trace |-> trace,
          cleanup_stack |-> cleanup_stack]
    ELSE LET entry == handlers[index]
             pushed == IF entry.cleanup
                       THEN Append(cleanup_stack, entry.n)
                       ELSE cleanup_stack
             entered == Append(trace, Event("start", entry.n))
         IN  CASE entry.kind = "pass" ->
                      ExecuteMiddleware(index + 1, handlers, entered, pushed)
               [] entry.kind = "short" ->
                      [result |-> Ok(Response(200, Tag("middleware", entry.n), <<>>)),
                       trace |-> entered, cleanup_stack |-> pushed]
               [] OTHER ->
                      [result |-> Err(Error("napi", Tag("middleware", entry.n), <<>>)),
                       trace |-> entered, cleanup_stack |-> pushed]

\* The events of calling the cleanups of the stack from first to last.
CleanupEvents(stack) == [i \in DOMAIN stack |-> Event("end", stack[i])]

\* MiddlewareChain::execute that runs the cleanups in the order they were
\* pushed.
NapiSrcExecuteCleanupForward(handlers) ==
    IF handlers = <<>>
    THEN [result |-> Ok(JsResponseDefault), trace |-> <<>>]
    ELSE LET ran == ExecuteMiddleware(1, handlers, <<>>, <<>>)
         IN  [result |-> ran.result,
              trace |-> ran.trace \o CleanupEvents(ran.cleanup_stack)]

\* MiddlewareChain::execute
NapiSrc_execute(handlers) ==
    IF handlers = <<>>
    THEN [result |-> Ok(JsResponseDefault), trace |-> <<>>]
    ELSE LET ran == ExecuteMiddleware(1, handlers, <<>>, <<>>)
         IN  [result |-> ran.result,
              trace |-> ran.trace \o CleanupEvents(Reversed(ran.cleanup_stack))]

ClFrame == UNCHANGED <<zapVars, hookVars, mwVars, coreVars, napiVars, jsVars, zcVars, hxVars, arVars, rrVars, csVars, jlVars>>

\* MiddlewareChain::new()
ClInit ==
    /\ cl_handlers = <<>>
    /\ cl_run = None

\* MiddlewareChain::add(middleware, cleanup).  The entry added n-th is
\* named n.
ClAdd(kind, cleanup) ==
    /\ Len(cl_handlers) < MaxEntries
    /\ cl_handlers' = Append(cl_handlers, [kind |-> kind, n |-> Len(cl_handlers) + 1,
                                           cleanup |-> cleanup])
    /\ cl_run' = None
    /\ ClFrame

\* MiddlewareChain::execute(request)
ClExecute ==
    /\ cl_run' = Some(NapiSrc_execute(cl_handlers))
    /\ UNCHANGED cl_handlers
    /\ ClFrame

ClNext ==
    \/ \E kind \in MiddlewareKinds, cleanup \in BOOLEAN : ClAdd(kind, cleanup)
    \/ ClExecute

(***************************************************************************)
(* napi-rs/src/hooks.rs: dispatches running the execute_* functions        *)
(* concurrently                                                            *)
(***************************************************************************)
\* The three fields of Hooks, each an Arc<Mutex<Vec<ThreadsafeFunction>>>.
HxPhases == {"pre_routing", "post_handler", "error_handler"}

\* The dispatches in flight.
Dispatches == {1, 2}

HxIdle == [at |-> "idle", phase |-> "", index |-> 0]

HxFrame == UNCHANGED <<zapVars, hookVars, mwVars, coreVars, napiVars, jsVars, zcVars,
                       clVars, arVars, rrVars, csVars, jlVars>>

\* Hooks::new()
HxInit ==
    /\ hx_handlers = [phase \in HxPhases |-> <<>>]
    /\ hx_lock = [phase \in HxPhases |-> None]
    /\ hx_pc = [d \in Dispatches |-> HxIdle]

\* Hooks::add_pre_routing / add_post_handler / add_error_handler: lock, push.
\* The push follows the lock with no await in between.
HxAdd(phase, kind) ==
    /\ hx_lock[phase] = None
    /\ Len(hx_handlers[phase]) < MaxSrcHooks
    /\ hx_handlers' = [hx_handlers EXCEPT ![phase] = Append(@, kind)]
    /\ UNCHANGED <<hx_lock, hx_pc>>
    /\ HxFrame

\* A dispatch calls execute_pre_routing, execute_post_handler or
\* execute_error_handler and reaches its first line, the lock().await.
HxCall(d, phase) ==
    /\ hx_pc[d] = HxIdle
    /\ hx_pc' = [hx_pc EXCEPT ![d] = [at |-> "locking", phase |-> phase, index |-> 0]]
    /\ UNCHANGED <<hx_handlers, hx_lock>>
    /\ HxFrame

\* lock().await completes when the Mutex is free: the dispatch holds the
\* guard in `handlers` and runs to the first call_async(..).await, or, with no
\* handler, to the return, where the guard is dropped.
HxAcquire(d) ==
    /\ hx_pc[d].at = "locking"
    /\ hx_lock[hx_pc[d].phase] = None
    /\ IF hx_handlers[hx_pc[d].phase] = <<>>
       THEN /\ hx_pc' = [hx_pc EXCEPT ![d] = HxIdle]
            /\ UNCHANGED hx_lock
       ELSE /\ hx_pc' = [hx_pc EXCEPT ![d] = [@ EXCEPT !.at = "awaiting", !.index = 1]]
            /\ hx_lock' = [hx_lock EXCEPT ![hx_pc[d].phase] = Some(d)]
    /\ UNCHANGED hx_handlers
    /\ HxFrame

\* The callback's answer arrives and the dispatch resumes: an error returns
\* through `?`; in execute_error_handler the first answer is returned; in the
\* other two the loop goes on to the next call_async(..).await or returns
\* after the last.  Returning drops the guard.
HxResume(d) ==
    /\ hx_pc[d].at = "awaiting"
    /\ LET phase == hx_pc[d].phase
           index == hx_pc[d].index
       IN  IF /\ hx_handlers[phase][index] = "ok"
              /\ phase # "error_handler"
              /\ index < Len(hx_handlers[phase])
           THEN /\ hx_pc' = [hx_pc EXCEPT ![d] = [@ EXCEPT !.index = index + 1]]
                /\ UNCHANGED hx_lock
           ELSE /\ hx_pc' = [hx_pc EXCEPT ![d] = HxIdle]
                /\ hx_lock' = [hx_lock EXCEPT ![phase] = None]
    /\ UNCHANGED hx_handlers
    /\ HxFrame

HxNext ==
    \/ \E phase \in HxPhases, kind \in {"ok", "fail"} : HxAdd(phase, kind)
    \/ \E d \in Dispatches, phase \in HxPhases : HxCall(d, phase)
    \/ \E d \in Dispatches : HxAcquire(d)
    \/ \E d \in Dispatches : HxResume(d)

(***************************************************************************)
(* The specifications: each runs one part of the program, the other parts  *)
(* staying as constructed.                                                 *)
(***************************************************************************)
Init == ZnInit /\ HkInit /\ MwInit /\ CrInit /\ NrInit /\ JsInit /\ ZcInit /\ ClInit /\ HxInit /\ ArInit /\ RrInit /\ CsInit /\ JlInit

SpecZap == Init /\ [][ZnNext]_vars

SpecRegisterRace == Init /\ [][RrNext]_vars

SpecHooks == Init /\ [][HkNext]_vars

SpecMiddleware == Init /\ [][MwNext]_vars

SpecAddRace == Init /\ [][ArNext]_vars

SpecCore == Init /\ [][CrNext]_vars

SpecStore == Init /\ [][CsNext]_vars

SpecNapi == Init /\ [][NrNext]_vars

SpecJs == Init /\ [][JsNext]_vars

SpecJsLocks == Init /\ [][JlNext]_vars

SpecJsLocksFair == SpecJsLocks /\ JlFairness

SpecConfigs == Init /\ [][ZcNext]_vars

SpecCleanup == Init /\ [][ClNext]_vars

SpecHookLocks == Init /\ [][HxNext]_vars

\* The zap-napi Router given patterns that keep '*' last and name each param
\* position once.
MatchingRouteInputs ==
    ({GET} \X { <<"/">>,
                <<"/", "u", "/", "m">>,
                <<"/", "u", "/", ":", "i">>,
                <<"/", "u", "/", "m", "/", "x">>,
                <<"/", "u", "/", ":", "i", "/", "c", "/", ":", "k">>,
                <<"/", "u", "/", "*">> })
        \cup {<<POST, <<"/", "u", "/", ":", "i">> >>}

ZmNext ==
    \/ \E r \in MatchingRouteInputs : ZnRegister(r[1], r[2])
    \/ \E r \in RequestInputs : ZnGetHandlerInfo(r[1], r[2])

SpecZapMatching == Init /\ [][ZmNext]_vars

\* The core Router and the napi-rs Router side by side, each given routes,
\* hooks and requests of its own.
RtPatterns == { <<"/", "u">>, <<"/", "u", "/", ":", "i">> }

RtRequestInputs ==
    { <<GET, <<"/", "u">> >>, <<GET, <<"/", "u", "/", "7">> >>, <<GET, <<"/", "v">> >> }

RtNext ==
    \/ \E path \in RtPatterns : CrRoute(GET, path, "ok")
    \/ \E hooks \in CoreHooksInputs : CrWithHooks(hooks)
    \/ \E r \in RtRequestInputs : CrHandle(r[1], r[2])
    \/ \E path \in RtPatterns : NrGet(path, "ok")
    \/ \E hooks \in NapiHooksInputs : NrWithHooks(hooks)
    \/ \E r \in RtRequestInputs : NrHandle(r[1], r[2])

SpecRouters == Init /\ [][RtNext]_vars

(***************************************************************************)
(* The reference the zap-napi lookups are compared with: matching stated   *)
(* on the registered patterns themselves, with no trie.                    *)
(***************************************************************************)
ZnSegs(method, path) == Split(ZnFullPath(method, path))

IsStatic(segment) == ~StartsWithColon(segment) /\ ~IsStar(segment)

\* The register calls that had returned when the last lookup ran.
InfoReg == zn_reg

\* The segment lists of the patterns registered by then.
ZnRegSegs == {ZnSegs(InfoReg[n].method, InfoReg[n].path) : n \in DOMAIN InfoReg}

\* Among the patterns cands, which agree with segs before position i, those
\* that match segs, preferring at every position a static segment to a param
\* and a param to a final wildcard.
RECURSIVE RefSelect(_, _, _)
RefSelect(cands, segs, i) ==
    IF i > Len(segs)
    THEN {q \in cands : Len(q) = i - 1}
    ELSE LET st == {q \in cands : Len(q) >= i /\ IsStatic(q[i]) /\ q[i] = segs[i]}
             pa == {q \in cands : Len(q) >= i /\ StartsWithColon(q[i])}
             wi == {q \in cands : Len(q) = i /\ IsStar(q[i])}
             rs == RefSelect(st, segs, i + 1)
             rp == RefSelect(pa, segs, i + 1)
         IN  IF rs # {} THEN rs ELSE IF rp # {} THEN rp ELSE wi

\* The last registration, before the lookup, among those whose pattern is in sel.
LastReg(sel) ==
    LET ns == {n \in DOMAIN InfoReg : ZnSegs(InfoReg[n].method, InfoReg[n].path) \in sel}
    IN  InfoReg[CHOOSE n \in ns : \A k \in ns : k <= n]

\* The last lookup: its segments, and the patterns the reference selects.
InfoSegs == ZnSegs(zn_info[1].method, zn_info[1].path)

InfoSel == RefSelect(ZnRegSegs, InfoSegs, 1)

Registered(method, path) ==
    \E n \in DOMAIN InfoReg : InfoReg[n].method = method /\ InfoReg[n].path = path

LastIdOf(method, path) ==
    LET ns == {n \in DOMAIN InfoReg : InfoReg[n].method = method /\ InfoReg[n].path = path}
    IN  InfoReg[CHOOSE n \in ns : \A k \in ns : k <= n].id

\* Two patterns that reach the same node and name its param differently.
ParamConflict(q, r) ==
    \E i \in DOMAIN q \cap DOMAIN r :
        /\ StartsWithColon(q[i]) /\ StartsWithColon(r[i]) /\ q[i] # r[i]
        /\ \A k \in 1..(i - 1) :
              q[k] = r[k] \/ (StartsWithColon(q[k]) /\ StartsWithColon(r[k]))

\* No two registered patterns name one param position differently.
ConflictFree == \A q, r \in ZnRegSegs : ~ParamConflict(q, r)

P_um == <<"/", "u", "/", "m">>

P_ui == <<"/", "u", "/", ":", "i">>

P_umx == <<"/", "u", "/", "m", "/", "x">>

P_uick == <<"/", "u", "/", ":", "i", "/", "c", "/", ":", "k">>

P_ujc == <<"/", "u", "/", ":", "j", "/", "c">>

P_uw == <<"/", "u", "/", "*">>

P_u7 == <<"/", "u", "/", "7">>

P_umc == <<"/", "u", "/", "m", "/", "c">>

P_u7c9 == <<"/", "u", "/", "7", "/", "c", "/", "9">>

\* C2: every get_handler_info of the zap-napi Router returns the route that
\* the precedence static > param > wildcard selects among the registered
\* patterns, backtracking from a static subtree without a match to the param
\* and then the wildcard alternative of the same node, and no route when none
\* matches; with /u/m and /u/:i registered, /u/m gets the route of /u/m and
\* /u/7 the route of /u/:i with {i: 7}, no other registered pattern naming
\* that param position differently.
C2_Precedence ==
    zn_info # None =>
        LET inf == zn_info[1] IN
        /\ (inf.result = None) <=> (InfoSel = {})
        /\ InfoSel # {} => inf.result[1].id = LastReg(InfoSel).id
        /\ (inf.method = GET /\ inf.path = P_um /\ Registered(GET, P_um)) =>
              inf.result = Some([id |-> LastIdOf(GET, P_um), params |-> EmptyMap])
        /\ (inf.method = GET /\ inf.path = P_u7 /\ Registered(GET, P_ui)) =>
              /\ inf.result # None
              /\ ConflictFree =>
                    inf.result = Some([id |-> LastIdOf(GET, P_ui),
                                       params |-> (<<"i">> :> <<"7">>)])

\* C2 witness: /u/m/x and /u/:j/c are registered and /u/m/c was looked up:
\* the static child m has no match below it and the param child gave one.
C2_Witness ==
    /\ zn_info # None
    /\ zn_info[1].method = GET /\ zn_info[1].path = P_umc
    /\ Registered(GET, P_umx) /\ Registered(GET, P_ujc)
    /\ zn_info[1].result # None
    /\ zn_info[1].result[1].id = LastIdOf(GET, P_ujc)

\* The params the claim expects of a lookup of segs served by pattern q:
\* each param name of q bound to the segment at its position.
ExpectedParams(q, segs) ==
    [name \in {Tail(q[i]) : i \in {k \in DOMAIN q : StartsWithColon(q[k])}} |->
        segs[CHOOSE i \in DOMAIN q : StartsWithColon(q[i]) /\ Tail(q[i]) = name]]

\* The path-param bindings of a lookup result: all but the wildcard's.
PathParams(params) ==
    [name \in DOMAIN params \ {<<"*">>} |-> params[name]]

\* C3: a get_handler_info that is served by a registered pattern returns
\* that route's id, and params that bind every ':name' of that pattern to the
\* path segment at its position and hold no other path param.
C3_ParamCapture ==
    (zn_info # None /\ InfoSel # {}) =>
        LET inf == zn_info[1]
            route == LastReg(InfoSel)
        IN  /\ inf.result # None
            /\ inf.result[1].id = route.id
            /\ PathParams(inf.result[1].params) =
                  ExpectedParams(ZnSegs(route.method, route.path), InfoSegs)

\* C4: a get_handler_info served by a pattern that ends in '*' returns that
\* route and binds "*" to all the segments from the wildcard's position on,
\* joined by '/', however many they are.
C4_WildcardCapture ==
    (zn_info # None /\ InfoSel # {}) =>
        LET inf == zn_info[1]
            route == LastReg(InfoSel)
            q == ZnSegs(route.method, route.path)
        IN  IsStar(q[Len(q)]) =>
              /\ inf.result # None
              /\ inf.result[1].id = route.id
              /\ Len(InfoSegs) >= Len(q)
              /\ <<"*">> \in DOMAIN inf.result[1].params
              /\ inf.result[1].params[<<"*">>] =
                    Join(SubSeq(InfoSegs, Len(q), Len(InfoSegs)))

\* C4 witness: /u/* served /u/m/c and captured "m/c".
C4_Witness ==
    /\ zn_info # None
    /\ zn_info[1].method = GET /\ zn_info[1].path = P_umc
    /\ Registered(GET, P_uw)
    /\ zn_info[1].result # None
    /\ zn_info[1].result[1].id = LastIdOf(GET, P_uw)
    /\ zn_info[1].result[1].params = (<<"*">> :> <<"m", "/", "c">>)

\* The registration n is a pattern conflict: it names a param position
\* differently from an earlier registration that is not itself a conflict.
RECURSIVE IsConflict(_)
IsConflict(n) ==
    \E k \in 1..(n - 1) :
        /\ ~IsConflict(k)
        /\ ParamConflict(ZnSegs(zn_reg[k].method, zn_reg[k].path),
                         ZnSegs(zn_reg[n].method, zn_reg[n].path))

\* The register call was refused with InvalidRoutePattern.
Refused(n) ==
    /\ ~zn_reg[n].result.ok
    /\ zn_reg[n].result.err[1].kind = "InvalidRoutePattern"

\* C13: a register call whose pattern names a param differently at a node
\* that already owns a param child (/a/:y after /a/:x) fails with
\* InvalidRoutePattern and returns no handler id.
C13_ConflictRejected ==
    \A n \in DOMAIN zn_reg : IsConflict(n) => Refused(n)

\* The trie of the registrations 1..n that are not pattern conflicts, each
\* under the id its register call took.
RECURSIVE TableWithoutConflicts(_)
TableWithoutConflicts(n) ==
    IF n = 0 THEN ZnNewNode
    ELSE IF IsConflict(n) THEN TableWithoutConflicts(n - 1)
    ELSE ZnInsert(TableWithoutConflicts(n - 1),
                  ZnFullPath(zn_reg[n].method, zn_reg[n].path), zn_reg[n].id)

\* C14: a registration that is a pattern conflict changes no lookup result:
\* every get_handler_info returns what the table of the other registrations
\* returns, so after /u/:i (h1) and then /u/:j a lookup of /u/7 still gives
\* h1 with {i: 7}.
C14_ConflictLeavesTableIntact ==
    zn_info # None =>
        zn_info[1].result =
            ZnFind(TableWithoutConflicts(Len(zn_reg)),
                   ZnFullPath(zn_info[1].method, zn_info[1].path))

\* A '*' of the pattern is followed by further segments.
WildcardNotLast(q) == \E i \in 1..(Len(q) - 1) : IsStar(q[i])

\* C15: a register call whose pattern has a '*' that is not its last segment
\* (/u/*/x) fails with InvalidRoutePattern.
C15_WildcardMustBeLast ==
    \A n \in DOMAIN zn_reg :
        WildcardNotLast(ZnSegs(zn_reg[n].method, zn_reg[n].path)) => Refused(n)

\* The registration n was followed by another of the same method and pattern.
Overwritten(n) ==
    \E k \in (n + 1)..Len(zn_reg) :
        zn_reg[k].method = zn_reg[n].method /\ zn_reg[k].path = zn_reg[n].path

\* C16: after the same method and pattern were registered twice, no
\* get_handler_info returns the id of the earlier registration, and a lookup
\* that the pattern serves returns the id of its last registration.
C16_LastRegistrationWins ==
    zn_info # None =>
        LET inf == zn_info[1] IN
        /\ inf.result # None =>
              \A n \in DOMAIN zn_reg : Overwritten(n) => inf.result[1].id # zn_reg[n].id
        /\ \A n \in DOMAIN zn_reg :
              (/\ ZnSegs(zn_reg[n].method, zn_reg[n].path) \in InfoSel
               /\ InfoSel = {ZnSegs(zn_reg[n].method, zn_reg[n].path)}) =>
                  /\ inf.result # None
                  /\ inf.result[1].id = LastIdOf(zn_reg[n].method, zn_reg[n].path)

\* C16 witness: /u/:i was registered twice and the lookup of /u/7 returned
\* the second id.
C16_Witness ==
    /\ Len(zn_reg) >= 2
    /\ zn_reg[1].method = GET /\ zn_reg[1].path = P_ui
    /\ zn_reg[2].method = GET /\ zn_reg[2].path = P_ui
    /\ zn_info # None
    /\ zn_info[1].method = GET /\ zn_info[1].path = P_u7
    /\ zn_info[1].result # None
    /\ zn_info[1].result[1].id = zn_reg[2].id

\* The segments of the pattern registered under the id.
SegsOfId(id) ==
    LET n == CHOOSE k \in DOMAIN zn_reg : zn_reg[k].id = id
    IN  ZnSegs(zn_reg[n].method, zn_reg[n].path)

\* C19: a lookup whose segments are exhausted at a node returns that node's
\* handler or no match: the route returned is never a pattern with more
\* segments than the path (a proper prefix of a pattern, also of a wildcard
\* pattern, does not match), a shorter one only through a final '*', and a
\* path registered as a static pattern gets that route.
C19_EndOfPath ==
    zn_info # None =>
        LET inf == zn_info[1] IN
        /\ inf.result # None =>
              LET q == SegsOfId(inf.result[1].id)
              IN  /\ Len(q) <= Len(InfoSegs)
                  /\ Len(q) < Len(InfoSegs) => IsStar(q[Len(q)])
        /\ (\A q \in ZnRegSegs : Len(q) > Len(InfoSegs)) => inf.result = None
        /\ (Registered(inf.method, inf.path)
            /\ \A i \in DOMAIN InfoSegs : IsStatic(InfoSegs[i])) =>
              inf.result = Some([id |-> LastIdOf(inf.method, inf.path),
                                 params |-> EmptyMap])

\* C19 witness: with /u/* and /u/m/x registered, the lookup of /u found
\* nothing.
C19_Witness ==
    /\ Registered(GET, P_uw) /\ Registered(GET, P_umx)
    /\ zn_info # None
    /\ zn_info[1].method = GET /\ zn_info[1].path = <<"/", "u">>
    /\ zn_info[1].result = None

(***************************************************************************)
(* The hook pipelines.                                                     *)
(***************************************************************************)
RunIs(fn) == hk_run # None /\ hk_run[1].fn = fn

\* The position of the first hook of the list of the given kind, 0 if none.
FirstOfKind(hooks, kind) ==
    IF \E i \in DOMAIN hooks : hooks[i].kind = kind
    THEN CHOOSE i \in DOMAIN hooks :
             /\ hooks[i].kind = kind
             /\ \A k \in 1..(i - 1) : hooks[k].kind # kind
    ELSE 0

\* The hooks of positions 1..last were called, once each, in that order.
CalledInOrderUpTo(calls, last) ==
    /\ Len(calls) = last
    /\ \A i \in 1..last : calls[i].n = i

\* The error hooks are tried in registration order up to the first one that
\* succeeds, whose response is the result; none after it is called.
FirstSuccessDecides(out) ==
    LET f == FirstOfKind(hk_error_hooks, "ok")
    IN  /\ CalledInOrderUpTo(out.calls, IF f = 0 THEN Len(hk_error_hooks) ELSE f)
        /\ f # 0 => (out.result.ok /\ out.result.val[1].from = Tag("error", f))
        /\ f = 0 => ~out.result.ok

\* C7: execute_error_hooks of the core crate and of napi-rs/hooks.rs calls
\* the error hooks in registration order and stops at the first that returns
\* Ok: its response is the result and no later error hook is called.
C7_FirstOkStops ==
    (RunIs("core.execute_error_hooks") \/ RunIs("napi.execute_error_hooks")) =>
        FirstSuccessDecides(hk_run[1].out)

\* C7 witness: of three error hooks the first failed and the second
\* succeeded; the core's execute_error_hooks called those two and returned
\* the second's response.
C7_Witness ==
    /\ RunIs("core.execute_error_hooks")
    /\ Len(hk_error_hooks) = 3
    /\ hk_error_hooks[1].kind = "fail" /\ hk_error_hooks[2].kind = "ok"
    /\ Len(hk_run[1].out.calls) = 2
    /\ hk_run[1].out.result.ok
    /\ hk_run[1].out.result.val[1].from = Tag("error", 2)

\* The error a failing error hook returns.
FailureOf(n) == Error("Internal", Tag("error", n), <<>>)

\* C8: in the core crate's execute_error_hooks a failing hook's failure
\* becomes the current error: the next hook is called with it, and when no
\* hook succeeds the error returned is the failure of the last hook that ran.
C8_FailureBecomesCurrent ==
    RunIs("core.execute_error_hooks") =>
        LET out == hk_run[1].out
        IN  /\ \A i \in 2..Len(out.calls) : out.calls[i].arg = FailureOf(i - 1)
            /\ (~out.result.ok /\ out.calls # <<>>) =>
                  out.result.err[1] = FailureOf(Len(out.calls))

\* C9: execute_error_handler of napi-rs/src/hooks.rs and of
\* zap-napi/src/hooks.rs tries the registered error handlers in registration
\* order until one succeeds: with a failing first and a succeeding second
\* handler the result is the second's response.
C9_TriedUntilOneSucceeds ==
    (RunIs("napi_src.execute_error_handler") \/ RunIs("zap_src.execute_error_handler")) =>
        FirstSuccessDecides(hk_run[1].out)

\* The hooks (of the given list and phase) were applied to the input as a
\* sequence: in registration order, each given what the one before it
\* returned, up to the first that fails, whose error is the result.
AppliedInSequence(phase, hooks, input, out) ==
    LET f == FirstOfKind(hooks, "fail")
        last == IF f = 0 THEN Len(hooks) ELSE f
        returned(i) == CallHook(phase, hooks[i], out.calls[i].arg)
    IN  /\ CalledInOrderUpTo(out.calls, last)
        /\ last >= 1 => out.calls[1].arg = input
        /\ \A i \in 1..(last - 1) :
              returned(i).ok /\ out.calls[i + 1].arg = returned(i).val[1]
        /\ out.result = IF last = 0 THEN Ok(input) ELSE returned(last)
        /\ f # 0 => (~out.result.ok /\ out.result.err[1].from = Tag(phase, f))

\* C10: execute_pre_routing and execute_post_handler (core crate and
\* napi-rs/hooks.rs) apply their hooks in registration order, each hook
\* receiving the value the previous one returned and the first the input;
\* the first failing hook ends the sequence, no later hook of the phase is
\* called, and its error is the result.
C10_SequentialHooks ==
    /\ RunIs("core.execute_pre_routing") =>
          AppliedInSequence("pre_routing", hk_pre_routing, Req0, hk_run[1].out)
    /\ RunIs("napi.execute_pre_routing") =>
          AppliedInSequence("pre_routing", hk_pre_routing, Req0, hk_run[1].out)
    /\ RunIs("core.execute_post_handler") =>
          AppliedInSequence("post_handler", hk_post_handler, Resp0, hk_run[1].out)
    /\ RunIs("napi.execute_post_handler") =>
          AppliedInSequence("post_handler", hk_post_handler, Resp0, hk_run[1].out)

\* C10 witness: of three pre-routing hooks the first succeeded and the second
\* failed: the second was given the request marked by the first, the third
\* was not called, and the second's error is the result.
C10_Witness ==
    /\ RunIs("core.execute_pre_routing")
    /\ Len(hk_pre_routing) = 3
    /\ hk_pre_routing[1].kind = "ok" /\ hk_pre_routing[2].kind = "fail"
    /\ Len(hk_run[1].out.calls) = 2
    /\ hk_run[1].out.calls[2].arg.marks = <<Tag("pre_routing", 1)>>
    /\ ~hk_run[1].out.result.ok
    /\ hk_run[1].out.result.err[1].from = Tag("pre_routing", 2)

(***************************************************************************)
(* The middleware chains.                                                  *)
(***************************************************************************)
MwRunIs(fn) == mw_run # None /\ mw_run[1].fn = fn

\* m1:enter, ..., mn:enter, H, mn:exit, ..., m1:exit
OnionTrace(n) ==
    [i \in 1..(2 * n + 1) |->
        IF i <= n THEN Event("enter", i)
        ELSE IF i = n + 1 THEN Event("handler", 0)
        ELSE Event("exit", 2 * n + 2 - i)]

\* The core chain's middlewares in registration order.
MwcList == [i \in 1..Cardinality(DOMAIN mwc_middlewares) |-> mwc_middlewares[i - 1]]

AllPass(list) == \A i \in DOMAIN list : list[i].kind = "pass"

\* C5: with middlewares m1..mn that each invoke their continuation once, the
\* core MiddlewareChain::execute and the handler composed by
\* zap-napi/middleware.rs run m1:enter, ..., mn:enter, H, mn:exit, ...,
\* m1:exit.
C5_OnionOrder ==
    /\ (MwRunIs("core.execute") /\ AllPass(MwcList)) =>
          mw_run[1].out.trace = OnionTrace(Len(MwcList))
    /\ (MwRunIs("zap.compose") /\ AllPass(mwv_middlewares)) =>
          mw_run[1].out.trace = OnionTrace(Len(mwv_middlewares))

\* C5 witness: the core chain ran three passing middlewares around H.
C5_Witness ==
    /\ MwRunIs("core.execute")
    /\ Len(MwcList) = 3 /\ AllPass(MwcList)
    /\ mw_run[1].out.trace =
          <<Event("enter", 1), Event("enter", 2), Event("enter", 3), Event("handler", 0),
            Event("exit", 3), Event("exit", 2), Event("exit", 1)>>

\* C6: the handler composed by napi-rs/middleware.rs has the
\* earliest-registered middleware outermost: called, it calls m1 first, m1's
\* continuation calls m2, and so on to the final handler.
C6_EarliestOutermost ==
    (MwRunIs("napi.compose") /\ AllPass(mwv_middlewares)) =>
        mw_run[1].out.trace = OnionTrace(Len(mwv_middlewares))

(***************************************************************************)
(* The core Router.                                                        *)
(***************************************************************************)
\* The handler of the last route call for the method and path, None if none.
CrLastHandler(method, path) ==
    LET ns == {n \in DOMAIN cr_reg : cr_reg[n].method = method /\ cr_reg[n].path = path}
    IN  IF ns = {} THEN None
        ELSE Some(cr_reg[CHOOSE n \in ns : \A k \in ns : k <= n].handler)

\* A pattern of static segments only.
AllStatic(path) == \A i \in DOMAIN Split(path) : IsStatic(Split(path)[i])

\* C1: in the core crate, once route(method, pattern, h) has returned Ok for
\* a static pattern, TrieNode::find on that method's trie with the identical
\* path returns h, and a handle of that request whose pre-routing hooks
\* succeed dispatches to h and does not answer RouteNotFound.
C1_RegisteredRouteIsFound ==
    /\ \A n \in DOMAIN cr_reg :
          AllStatic(cr_reg[n].path) =>
              /\ cr_reg[n].method \in DOMAIN cr_routes
              /\ \A f \in CoreFind(cr_routes[cr_reg[n].method], cr_reg[n].path) :
                    f.handler = CrLastHandler(cr_reg[n].method, cr_reg[n].path)
    /\ cr_out # None =>
          LET call == cr_out[1]
              h == CrLastHandler(call.method, call.path)
          IN  (/\ h # None
               /\ AllStatic(call.path)
               /\ \A i \in DOMAIN cr_hooks.pre_routing :
                     cr_hooks.pre_routing[i].kind = "ok") =>
                  /\ call.out.found = h
                  /\ ~(~call.out.result.ok
                        /\ call.out.result.err[1].kind = "RouteNotFound")

(***************************************************************************)
(* The napi-rs Router.                                                     *)
(***************************************************************************)
\* C11: Router::handle of napi-rs/router.rs always returns a Response, never
\* an Error: a pre-routing failure, an unmatched route, a handler or
\* middleware failure and a post-handler failure each end in the response of
\* an error hook or in the default response.
C11_AlwaysAResponse ==
    nr_out # None => nr_out[1].out.result.ok

\* The registration whose handler the lookup returned.
NrFoundReg == nr_reg[nr_out[1].out.found[1].n]

\* C17: the napi-rs Router matches a handler only for the method it was
\* registered under: a handle whose lookup finds a route finds one added by
\* the function of the request's method (get for GET, post for POST), and a
\* request whose method has no route finds none.
C17_MethodIsolation ==
    (nr_out # None /\ nr_out[1].out.found # None) =>
        NrFoundReg.via = nr_out[1].method

\* C18: a lookup of the napi-rs trie that finds the route of a pattern fills
\* the params map with every ':name' of the pattern bound to the path segment
\* at its position ({i: 7} for /u/:i and /u/7).
C18_NapiParamCapture ==
    (nr_out # None /\ nr_out[1].out.found # None) =>
        nr_out[1].out.params =
            ExpectedParams(Split(NrFoundReg.path), Split(nr_out[1].path))

(***************************************************************************)
(* The service of the core Router.                                         *)
(***************************************************************************)
CrServed == cr_out # None /\ cr_out[1].fn = "serve"

\* C12: the service of Router::serve resolves every request to a Response:
\* the response of handle when it succeeds; otherwise the error hooks are run
\* on handle's error and the first to succeed gives the response; when none
\* succeeds the response has the error's status_code() and its message as
\* body.  Unregistered path and no error hook: a 404.
C12_ServeAlwaysResponds ==
    CrServed =>
        LET call == cr_out[1]
            handled == call.out.result
            first_ok == FirstOfKind(cr_hooks.error_hooks, "ok")
        IN  /\ call.served # None
            /\ handled.ok => call.served[1] = handled.val[1]
            /\ ~handled.ok =>
                  /\ CalledInOrderUpTo(call.error_calls,
                         IF first_ok = 0 THEN Len(cr_hooks.error_hooks) ELSE first_ok)
                  /\ call.error_calls # <<>> => call.error_calls[1].arg = handled.err[1]
                  /\ first_ok # 0 => call.served[1].from = Tag("error", first_ok)
                  /\ first_ok = 0 =>
                        /\ call.served[1].status = CoreStatusCode(handled.err[1])
                        /\ call.served[1].about = CoreToString(handled.err[1])
                  /\ (cr_hooks.error_hooks = <<>> /\ handled.err[1].kind = "RouteNotFound") =>
                        call.served[1].status = 404

\* C12 witness: with no hooks, the request for a path no route call named
\* was answered 404 with the text of RouteNotFound.
C12_Witness ==
    /\ CrServed
    /\ cr_hooks = CoreHooksNew
    /\ cr_reg # <<>>
    /\ CrLastHandler(cr_out[1].method, cr_out[1].path) = None
    /\ cr_out[1].served # None
    /\ cr_out[1].served[1].status = 404
    /\ cr_out[1].served[1].about = <<"Route not found: ">> \o cr_out[1].path

(***************************************************************************)
(* Unmatched requests.                                                     *)
(***************************************************************************)
\* The pattern q matches the path segments segs.
PatternMatches(q, segs) ==
    /\ Len(q) <= Len(segs)
    /\ \A i \in DOMAIN q :
          \/ StartsWithColon(q[i])
          \/ q[i] = segs[i] /\ IsStatic(q[i])
          \/ IsStar(q[i]) /\ i = Len(q)
    /\ Len(q) < Len(segs) => (q # <<>> /\ IsStar(q[Len(q)]))

\* Router::handle answered RouteNotFound with the path, and no handler ran.
AnsweredRouteNotFound(path, out) ==
    /\ out.result = Err(Error("RouteNotFound", Tag("router", 0), path))
    /\ out.found = None
    /\ \A i \in DOMAIN out.trace : out.trace[i].ev # "handler"

AllOk(hooks) == \A i \in DOMAIN hooks : hooks[i].kind = "ok"

\* C20: Router::handle (core crate and napi-rs/router.rs), on a request that
\* reaches the lookup (the pre-routing hooks succeed) and whose path matches
\* no registered route, returns Err(RouteNotFound) carrying the request path
\* and calls no route handler.
C20_UnmatchedIsRouteNotFound ==
    /\ (/\ cr_out # None
        /\ AllOk(cr_hooks.pre_routing)
        /\ \A n \in DOMAIN cr_reg :
              cr_reg[n].method = cr_out[1].method =>
                  ~PatternMatches(Split(cr_reg[n].path), Split(cr_out[1].path))) =>
          AnsweredRouteNotFound(cr_out[1].path, cr_out[1].out)
    /\ (/\ nr_out # None
        /\ (nr_hooks # None => AllOk(nr_hooks[1].pre_routing))
        /\ \A n \in DOMAIN nr_reg :
              ~PatternMatches(Split(nr_reg[n].path), Split(nr_out[1].path))) =>
          AnsweredRouteNotFound(nr_out[1].path, nr_out[1].out)

\* C20 witness: each router has a route for /u and was asked for /v: both
\* answered RouteNotFound("/v").
C20_Witness ==
    /\ cr_reg # <<>> /\ nr_reg # <<>>
    /\ cr_out # None /\ nr_out # None
    /\ cr_out[1].path = <<"/", "v">> /\ nr_out[1].path = <<"/", "v">>
    /\ AnsweredRouteNotFound(<<"/", "v">>, cr_out[1].out)
    /\ AnsweredRouteNotFound(<<"/", "v">>, nr_out[1].out)

(***************************************************************************)
(* Handler errors and hooks around the handler.                            *)
(***************************************************************************)
\* C21: in the core crate, with an error hook registered that succeeds, a
\* Router::handle of a request for a registered route whose handler returns an
\* error returns Ok with the Response of the error hook (status 500, about
\* the handler's error), not Err.
C21_ErrorHookAnswersHandle ==
    (/\ cr_out # None
     /\ cr_out[1].fn = "handle"
     /\ AllOk(cr_hooks.pre_routing)
     /\ FirstOfKind(cr_hooks.error_hooks, "ok") # 0
     /\ AllStatic(cr_out[1].path)
     /\ CrLastHandler(cr_out[1].method, cr_out[1].path) # None
     /\ CrLastHandler(cr_out[1].method, cr_out[1].path)[1].kind = "fail") =>
        /\ cr_out[1].out.result.ok
        /\ cr_out[1].out.result.val[1].status = 500
        /\ cr_out[1].out.result.val[1].from =
               Tag("error", FirstOfKind(cr_hooks.error_hooks, "ok"))

\* C22: with no hooks configured, a Router::handle of napi-rs/router.rs whose
\* matched handler returns Err(e) returns that Err(e), not a Response.
C22_HandlerErrorPropagates ==
    (/\ nr_out # None
     /\ nr_hooks = None
     /\ nr_middleware = None
     /\ nr_out[1].out.found # None
     /\ nr_out[1].out.found[1].kind = "fail") =>
        nr_out[1].out.result =
            Err(Error("Internal", Tag("handler", nr_out[1].out.found[1].n), <<>>))

\* What the hooks of a phase, all succeeding, leave on the value in order.
TagsOf(phase, hooks) == [i \in DOMAIN hooks |-> Tag(phase, hooks[i].n)]

\* C23: Router::handle of napi-rs/router.rs gives the matched handler the
\* request as the last pre-routing hook returned it (what the pre-routing
\* hooks added is on the request the handler sees), and returns the handler's
\* response as transformed by the post-handler hooks: their result on it,
\* and when they all succeed, the response with what each added, in order.
C23_HooksAroundHandler ==
    (/\ nr_out # None
     /\ nr_hooks # None
     /\ AllOk(nr_hooks[1].pre_routing)
     /\ nr_middleware = None
     /\ nr_out[1].out.found # None
     /\ nr_out[1].out.found[1].kind = "ok") =>
        LET pre == TagsOf("pre_routing", nr_hooks[1].pre_routing)
            post == TagsOf("post_handler", nr_hooks[1].post_handler)
            seen == [Response(200, Tag("handler", nr_out[1].out.found[1].n), <<>>)
                        EXCEPT !.marks = pre]
        IN  /\ nr_out[1].out.result =
                   Napi_execute_post_handler(nr_hooks[1].post_handler, seen).result
            /\ AllOk(nr_hooks[1].post_handler) =>
                   nr_out[1].out.result = Ok([seen EXCEPT !.marks = pre \o post])

\* C23 witness: with one pre-routing and one post-handler hook, the handler
\* of the matched route answered and the response carries both hooks' marks.
C23_Witness ==
    /\ nr_out # None
    /\ nr_hooks # None
    /\ nr_middleware = None
    /\ nr_out[1].out.found # None
    /\ nr_out[1].out.result.ok
    /\ nr_out[1].out.result.val[1].from.who = "handler"
    /\ nr_out[1].out.result.val[1].marks =
           <<Tag("pre_routing", 1), Tag("post_handler", 1)>>

(***************************************************************************)
(* JsRouter.                                                               *)
(***************************************************************************)
\* The registrations made through get whose pattern matches the uri segment
\* for segment, a ':name' segment matching any one segment.
JsMatching(uri) ==
    {n \in DOMAIN js_reg :
        /\ js_reg[n].via = GET
        /\ Len(Split(js_reg[n].path)) = Len(Split(uri))
        /\ PatternMatches(Split(js_reg[n].path), Split(uri))}

\* C24: JsRouter::handle matches parameterised routes: a GET request whose
\* uri matches, segment for segment, the pattern of a route registered with
\* get (':name' segments matching any segment) is dispatched to a handler of
\* such a route and answered by it with status 200, and a uri matching no
\* route gets the not-found outcome (the error handler's answer or the 404
\* response).
C24_JsParamRoutes ==
    (/\ js_out # None
     /\ js_out[1].method = GET
     /\ AllOk(js_middlewares)
     /\ AllOk(js_hooks)) =>
        /\ (\E n \in JsMatching(js_out[1].path) : js_reg[n].handler.kind = "ok") =>
              /\ js_out[1].out.found # None
              /\ js_out[1].out.found[1].n \in
                     {js_reg[n].handler.n : n \in JsMatching(js_out[1].path)}
              /\ (js_out[1].out.found[1].kind = "ok" =>
                     /\ js_out[1].out.result.ok
                     /\ js_out[1].out.result.val[1].status = 200)
        /\ JsMatching(js_out[1].path) = {} =>
              /\ js_out[1].out.found = None
              /\ js_error_handler = None =>
                     js_out[1].out.result = Ok(JsNotFoundResponse)

(***************************************************************************)
(* The lifecycle of the zap-napi route table.                              *)
(***************************************************************************)
\* C25: after the route table has served a lookup it is frozen: no later
\* register call changes it.
C25_FrozenAfterFirstDispatch ==
    [][zn_info # None => zn_routes' = zn_routes]_vars

\* C26: a get_handler_info leaves the trie as it was and carries nothing over:
\* repeated with the same method and path and no registration in between, it
\* returns the handler id and params it returned before, which are those of a
\* lookup in the table as it stands.
C26_LookupIdempotent ==
    /\ [](zn_info # None =>
            zn_info[1].result =
                ZnFind(zn_routes, ZnFullPath(zn_info[1].method, zn_info[1].path)))
    /\ [][zn_info' # None => zn_routes' = zn_routes]_vars

\* C26 witness: a lookup that matched a ':name' route returned its id with
\* the captured value, with all the routes registered.
C26_Witness ==
    /\ zn_info # None
    /\ zn_next_id > MaxRoutes
    /\ zn_info[1].method = GET /\ zn_info[1].path = P_u7
    /\ Registered(GET, P_ui)
    /\ zn_info[1].result # None
    /\ zn_info[1].result[1].id = LastIdOf(GET, P_ui)
    /\ zn_info[1].result[1].params = (<<"i">> :> <<"7">>)

(***************************************************************************)
(* Route configs of the zap-napi Router.                                   *)
(***************************************************************************)
\* The ids listed by the config field the last call read, None if the
\* handler has no config or the field is None.
ZcListed ==
    IF zc_out[1].handler_id \notin DOMAIN zc_route_configs THEN None
    ELSE IF zc_out[1].fn = "get_middleware_chain"
         THEN zc_route_configs[zc_out[1].handler_id].middleware
         ELSE IF zc_out[1].fn = "get_guards"
         THEN zc_route_configs[zc_out[1].handler_id].guards
         ELSE None

\* C28: for a route registered with a RouteConfig listing registered
\* middleware ids and guard ids, get_middleware_chain(handler_id) returns one
\* middleware per listed middleware id and get_guards(handler_id) one guard
\* per listed guard id: the objects registered under the ids, in order.
C28_OnePerListedId ==
    (/\ zc_out # None
     /\ ZcListed # None
     /\ \A i \in DOMAIN ZcListed[1] : ZcListed[1][i] \in DOMAIN zc_middlewares) =>
        /\ zc_out[1].result # None
        /\ zc_out[1].result[1] = [i \in DOMAIN ZcListed[1] |-> ZcObject(ZcListed[1][i])]

(***************************************************************************)
(* The cleanups of napi-rs/src/middleware.rs.                              *)
(***************************************************************************)
\* The number of entries execute enters: up to the first that does not call
\* next.
ClEntered ==
    LET stops == {i \in DOMAIN cl_handlers : cl_handlers[i].kind # "pass"}
    IN  IF stops = {} THEN Len(cl_handlers)
        ELSE CHOOSE i \in stops : \A k \in stops : i <= k

\* The positions in the trace of the event.
ClAt(ev, n) == {i \in DOMAIN cl_run[1].trace : cl_run[1].trace[i] = Event(ev, n)}

\* C29: MiddlewareChain::execute of napi-rs/src/middleware.rs enters the
\* middlewares in registration order, then runs the cleanup functions in the
\* reverse order, once each and only those of the middlewares entered (for
\* two: start 1, start 2, end 2, end 1), whether the chain ended with a
\* response or with an error.
C29_CleanupsInReverse ==
    cl_run # None =>
        LET trace == cl_run[1].trace
        IN  /\ \A i \in 1..ClEntered : trace[i] = Event("start", i)
            /\ \A i \in DOMAIN trace : i > ClEntered => trace[i].ev = "end"
            /\ \A n \in DOMAIN cl_handlers :
                  Cardinality(ClAt("end", n)) =
                      IF n <= ClEntered /\ cl_handlers[n].cleanup THEN 1 ELSE 0
            /\ \A n, k \in DOMAIN cl_handlers :
                  \A i \in ClAt("end", n), j \in ClAt("end", k) :
                      n < k => j < i

\* C29 witness: a chain of three with cleanups whose second middleware
\* failed: start 1, start 2, end 2, end 1, and the result is the error.
C29_Witness ==
    /\ cl_run # None
    /\ Len(cl_handlers) = 3
    /\ ~cl_run[1].result.ok
    /\ cl_run[1].trace = <<Event("start", 1), Event("start", 2),
                           Event("end", 2), Event("end", 1)>>

(***************************************************************************)
(* Concurrent dispatches in the Hooks of napi-rs/src.                      *)
(***************************************************************************)
\* C27: while one dispatch is suspended inside a hook of a phase (awaiting
\* the hook's callback), a second dispatch that has called the execute
\* function of the same phase can start the phase: it need not wait for the
\* first to resume.
C27_SuspensionDoesNotBlock ==
    \A d, e \in Dispatches :
        (/\ d # e
         /\ hx_pc[d].at = "awaiting"
         /\ hx_pc[e].at = "locking"
         /\ hx_pc[e].phase = hx_pc[d].phase) =>
            ENABLED HxAcquire(e)

(***************************************************************************)
(* A failing pre-routing hook.                                             *)
(***************************************************************************)
\* The failure of the first failing hook of the phase.
FirstFailure(phase, hooks) ==
    Err(Error("Internal", Tag(phase, hooks[FirstOfKind(hooks, "fail")].n), <<>>))

\* C31: when a pre-routing hook fails, Router::handle (core crate and
\* napi-rs/router.rs) does no route dispatch for the request: no lookup
\* result, no middleware, no route handler and no post-handler hook, and what
\* handle returns is the hook's failure.
C31_PreRoutingFailureSkipsDispatch ==
    /\ (cr_out # None /\ cr_out[1].fn = "handle" /\ ~AllOk(cr_hooks.pre_routing)) =>
          /\ cr_out[1].out.result = FirstFailure("pre_routing", cr_hooks.pre_routing)
          /\ cr_out[1].out.found = None
          /\ \A i \in DOMAIN cr_out[1].out.trace :
                cr_out[1].out.trace[i].ev = "pre_routing"
    /\ (nr_out # None /\ nr_hooks # None /\ ~AllOk(nr_hooks[1].pre_routing)) =>
          /\ nr_out[1].out.result = FirstFailure("pre_routing", nr_hooks[1].pre_routing)
          /\ nr_out[1].out.found = None
          /\ nr_out[1].out.trace = <<>>
          /\ nr_out[1].out.error_calls = <<>>

\* C31 witness: both routers have the route of the request and a failing
\* pre-routing hook, and both returned the hook's failure.
C31_Witness ==
    /\ cr_out # None /\ nr_out # None
    /\ CrLastHandler(cr_out[1].method, cr_out[1].path) # None
    /\ \E n \in DOMAIN nr_reg : nr_reg[n].path = nr_out[1].path
    /\ nr_hooks # None
    /\ ~AllOk(cr_hooks.pre_routing) /\ ~AllOk(nr_hooks[1].pre_routing)
    /\ ~cr_out[1].out.result.ok /\ ~nr_out[1].out.result.ok
    /\ cr_out[1].out.result.err[1].from = Tag("pre_routing", 1)
    /\ nr_out[1].out.result.err[1].from = Tag("pre_routing", 1)

\* C32: in JsRouter::handle a request that matches no registered route
\* invokes no middleware: the not-found outcome goes straight to the error
\* handler or the 404 response.
C32_NoMiddlewareWhenUnmatched ==
    (/\ js_out # None
     /\ JsRouteKey(js_out[1].method, js_out[1].path) \notin DOMAIN js_routes) =>
        \A i \in DOMAIN js_out[1].out.trace :
            js_out[1].out.trace[i].ev # "middleware"

(***************************************************************************)
(* The result pipelines of the napi-rs Router.                             *)
(***************************************************************************)
\* The error the composed handler of the last handle returned, None when it
\* returned a response: read off what ran.  When the route handler ran, the
\* passing middlewares around it hand its result on; otherwise the
\* middleware entered last answered or failed.
NrChainError ==
    LET trace == nr_out[1].out.trace
        found == nr_out[1].out.found[1]
        enters == {i \in DOMAIN trace : trace[i].ev = "enter"}
    IN  IF \E i \in DOMAIN trace : trace[i].ev = "handler"
        THEN IF found.kind = "fail"
             THEN Some(Error("Internal", Tag("handler", found.n), <<>>))
             ELSE None
        ELSE LET last == CHOOSE i \in enters : \A k \in enters : k <= i
                 stopped == CHOOSE m \in {nr_middleware[1][k] : k \in DOMAIN nr_middleware[1]} :
                               m.n = trace[last].n
             IN  IF stopped.kind = "fail"
                 THEN Some(Error("MiddlewareError", Tag("middleware", stopped.n), <<>>))
                 ELSE None

\* The result shows the post-handler hooks at work: a response one of them
\* marked, or the failure of one of them.
NrPostHandlerShows ==
    LET result == nr_out[1].out.result
    IN  IF result.ok
        THEN \E i \in DOMAIN result.val[1].marks :
                result.val[1].marks[i].who = "post_handler"
        ELSE result.err[1].from.who = "post_handler"

\* C34: for a matched request in Router::handle of napi-rs/router.rs with
\* hooks configured, exactly one result pipeline runs: the post-handler hooks
\* run if and only if the composed handler returned a response, the error
\* hooks if and only if it returned an error, and the error hooks are given
\* exactly that error (a later error hook gets the failure of the one before
\* it, the current error).
C34_OneResultPipeline ==
    (/\ nr_out # None
     /\ nr_hooks # None
     /\ nr_out[1].out.found # None) =>
        LET out == nr_out[1].out
            hooks == nr_hooks[1]
        IN  /\ NrChainError = None =>
                  /\ out.error_calls = <<>>
                  /\ hooks.post_handler # <<>> => NrPostHandlerShows
            /\ NrChainError # None =>
                  /\ ~NrPostHandlerShows
                  /\ hooks.error_hooks # <<>> =>
                        /\ out.error_calls # <<>>
                        /\ out.error_calls[1].arg = NrChainError[1]
                        /\ \A i \in DOMAIN out.error_calls :
                              i > 1 => out.error_calls[i].arg =
                                  Error("Internal", Tag("error", out.error_calls[i - 1].n), <<>>)
                  /\ out.result = Napi_execute_error_hooks(hooks.error_hooks,
                                                           NrChainError[1]).result

\* C34 witness: the matched handler failed and the one error hook, called
\* with the handler's error, answered; a post-handler hook is registered.
C34_Witness ==
    /\ nr_out # None /\ nr_hooks # None /\ nr_out[1].out.found # None
    /\ nr_hooks[1].post_handler # <<>>
    /\ nr_out[1].out.found[1].kind = "fail"
    /\ Len(nr_out[1].out.error_calls) = 1
    /\ nr_out[1].out.error_calls[1].arg =
           Error("Internal", Tag("handler", nr_out[1].out.found[1].n), <<>>)
    /\ nr_out[1].out.result.ok
    /\ nr_out[1].out.result.val[1].from = Tag("error", 1)
    /\ nr_out[1].out.result.val[1].marks = <<>>

(***************************************************************************)
(* Middleware short-circuit.                                               *)
(***************************************************************************)
\* The position of the first middleware of the list that returns without
\* invoking its continuation, 0 if all invoke it.
FirstStop(list) ==
    LET stops == {i \in DOMAIN list : list[i].kind # "pass"}
    IN  IF stops = {} THEN 0 ELSE CHOOSE i \in stops : \A k \in stops : i <= k

\* What the chain of the list does when its k-th middleware returns without
\* invoking its continuation: m1..mk are entered and left, nothing after mk
\* and not the handler runs, and mk's value goes out through m(k-1)..m1, a
\* response marked by each of them in turn.
ShortCircuited(list, k, out) ==
    /\ out.trace = [i \in 1..(2 * k) |->
                       IF i <= k THEN Event("enter", list[i].n)
                       ELSE Event("exit", list[2 * k + 1 - i].n)]
    /\ IF list[k].kind = "short"
       THEN out.result =
               Ok([Response(200, Tag("middleware", list[k].n), <<>>) EXCEPT
                      !.marks = [i \in 1..(k - 1) |-> Tag("middleware", list[k - i].n)]])
       ELSE out.result = Err(Error("MiddlewareError", Tag("middleware", list[k].n), <<>>))

\* C33: if a middleware returns without invoking its continuation, no
\* later-registered middleware and not the terminal handler is invoked, and
\* the value it returned is what each earlier-registered middleware receives
\* from its own continuation (core MiddlewareChain::execute and the handler
\* composed by zap-napi/middleware.rs).
C33_ShortCircuit ==
    /\ (MwRunIs("core.execute") /\ FirstStop(MwcList) # 0) =>
          ShortCircuited(MwcList, FirstStop(MwcList), mw_run[1].out)
    /\ (MwRunIs("zap.compose") /\ FirstStop(mwv_middlewares) # 0) =>
          ShortCircuited(mwv_middlewares, FirstStop(mwv_middlewares), mw_run[1].out)

\* C33 witness: in a core chain of three the second middleware answered
\* itself: the third and the handler did not run, and the first marked the
\* second's response.
C33_Witness ==
    /\ MwRunIs("core.execute")
    /\ Len(MwcList) = 3
    /\ MwcList[1].kind = "pass" /\ MwcList[2].kind = "short"
    /\ mw_run[1].out.trace = <<Event("enter", 1), Event("enter", 2),
                               Event("exit", 2), Event("exit", 1)>>
    /\ mw_run[1].out.result.ok
    /\ mw_run[1].out.result.val[1].from = Tag("middleware", 2)
    /\ mw_run[1].out.result.val[1].marks = <<Tag("middleware", 1)>>

(***************************************************************************)
(* Soundness and completeness of the zap-napi lookup.                      *)
(***************************************************************************)
\* The registrations whose pattern matches the segments of the last lookup,
\* the method being the first segment.
InfoMatching ==
    {n \in DOMAIN zn_reg :
        PatternMatches(ZnSegs(zn_reg[n].method, zn_reg[n].path), InfoSegs)}

\* C36: with registered patterns in which '*' only occurs as last segment and
\* each position has one param name, get_handler_info(method, path) returns a
\* handler if and only if at least one pattern registered for the method
\* matches the path segment for segment (static segments equal, a param
\* matching any one segment, a trailing wildcard one or more), and the id
\* returned is the id of a registration of a matching pattern.
C36_SoundAndComplete ==
    (/\ zn_info # None
     /\ ConflictFree
     /\ \A q \in ZnRegSegs : ~WildcardNotLast(q)) =>
        /\ zn_info[1].result # None <=> InfoMatching # {}
        /\ zn_info[1].result # None =>
               zn_info[1].result[1].id \in {zn_reg[n].id : n \in InfoMatching}

\* C36 witness: with /u/m/x, /u/:i and /u/* registered, the lookup of /u/m/c
\* (no static or param route, the wildcard matches) returned the wildcard
\* route's id.
C36_Witness ==
    /\ zn_info # None
    /\ zn_info[1].method = GET /\ zn_info[1].path = P_umc
    /\ Registered(GET, P_umx) /\ Registered(GET, P_ui) /\ Registered(GET, P_uw)
    /\ zn_info[1].result # None
    /\ zn_info[1].result[1].id = LastIdOf(GET, P_uw)

\* C39: the per-route getters of the zap-napi Router are read-only: a call of
\* get_middleware_chain, get_guards, get_validation or get_transform changes
\* neither the middleware cells nor the route configs, so it changes nothing
\* a later getter call returns.
C39_GettersReadOnly ==
    [][zc_out' # None =>
          /\ zc_middlewares' = zc_middlewares
          /\ zc_route_configs' = zc_route_configs]_vars

\* C37: no middleware is lost by concurrent MiddlewareChain::add calls: once
\* every add that was begun has returned, the chain holds each added
\* middleware exactly once, at the indices 0..n-1 for the n adds made.
C37_NoMiddlewareLost ==
    (\A t \in Adders : ar_pc[t] = None) =>
        /\ DOMAIN ar_middlewares = 0..(Len(ar_done) - 1)
        /\ \A i \in 1..Len(ar_done) :
               Cardinality({idx \in DOMAIN ar_middlewares :
                               ar_middlewares[idx].n = ar_done[i]}) = 1

\* C38: when register calls for one method and pattern have run concurrently
\* and all have returned, get_handler_info for a matching path returns the
\* greatest of the ids issued to them.
C38_LaterIdServes ==
    ( /\ rr_info # None
      /\ \A t \in Registrars : rr_pc[t] = None
      /\ Len(rr_done) >= 2
      /\ \A i \in 1..Len(rr_done) :
             /\ rr_done[i].method = rr_done[1].method
             /\ rr_done[i].path = rr_done[1].path
      /\ rr_info[1].result # None )
    => \A i \in 1..Len(rr_done) : rr_done[i].id <= rr_info[1].result[1].id

\* C35: Store::lookup of the core crate is deterministic: for the routes
\* registered and the path looked up, the handler returned and the path
\* params captured are the same for every order the route map can be
\* iterated in.
C35_LookupOrderIndependent ==
    cs_out # None =>
        \A order \in StoreOrders(cs_routes) :
            CoreStore_lookup(cs_routes, cs_out[1].path, order) = cs_out[1].result

\* C40: the JsRouter is deadlock-free: under concurrent handle and
\* registration calls, every call that was made gets the locks it awaits
\* and returns, every callback returning.
C40_EveryCallReturns ==
    \A c \in JsCalls : (jl_pc[c] # JlIdle) ~> (jl_pc[c] = JlIdle)

\* A handle call holds the read guard of the middlewares and waits for the
\* read guard of the hooks, which another call holds for writing.
C40_Witness ==
    \E c1, c2 \in JsCalls :
        /\ c1 \in jl_readers["middlewares"]
        /\ jl_pc[c1] = [op |-> "handle", lock |-> "hooks", granted |-> FALSE]
        /\ jl_writer["hooks"] = Some(c2)
        /\ jl_pc[c2] = [op |-> "add_hook", lock |-> "hooks", granted |-> TRUE]

====
